---------------------------- MODULE Spec2Model ----------------------------
(***************************************************************************)
(* A model of the dogbot / go-openclaw gateway core: the WebSocket         *)
(* connection wrapper (ws.Conn), the gateway hub (Gateway), the client     *)
(* view (Client), the heartbeat manager (Heartbeat) and the event bus      *)
(* (protocol.EventBus).                                                    *)
(*                                                                         *)
(* The specifications share the variables and the actions:                 *)
(*   Spec      one connection's protocol: accept, handshake, dispatch      *)
(*   SpecHub   the hub with several clients: register and broadcast        *)
(*   SpecStop  the hub with several clients and Gateway.Stop               *)
(*   SpecLive  SpecStop with the fairness of the Go scheduler              *)
(*   SpecHB    the heartbeat's idle check against a discrete clock         *)
(*   SpecBus   the event bus under concurrent publishers                   *)
(* Channels are sequences with a capacity; a goroutine is a program        *)
(* counter; a Go select with several ready cases is a disjunction.         *)
(***************************************************************************)
EXTENDS Integers, Sequences, FiniteSets, TLC

(***************************************************************************)
(* Bounds of the model.  The program's channel capacities (256, 64) are    *)
(* scaled down; nothing in the code depends on their values other than     *)
(* through "full" and "not full".                                          *)
(***************************************************************************)
MaxClients == 2
\* frames one peer sends on its connection
MaxFrames == 3
\* capacity of Conn.send (256 in the program)
SendCap == 2
\* capacity of Conn.receive (64 in the program)
RecvCap == 1
\* capacity of Gateway.register (64 in the program)
RegisterCap == 1
\* capacity of Gateway.broadcast (256 in the program)
BroadcastCap == 1
\* calls of Gateway.Broadcast
MaxBroadcasts == 2
\* last instant of the clock in Spec
MaxTime == 1
\* last instant of the clock in SpecHB
HBMaxTime == 7
\* concurrent callers of EventBus.Publish / PublishData
MaxPublishers == 2
\* EventSubscriber objects ever created
MaxSubs == 2
\* events ever published on the bus
MaxSeq == 3
\* capacity of EventSubscriber.send (256 in the program)
SubCap == 2
\* pings the heartbeat manager sends
MaxPings == 2
\* frames a peer sends while the heartbeat manager is observed
HBMaxFrames == 2

\* the goroutines calling session.Manager.GetOrCreate at once
MaxCallers == 2
\* the Session objects created in one run
MaxSessions == 3

ClientIds == 1..MaxClients
Callers == 1..MaxCallers
\* the session ids asked for, and the nil *Session
SessionKeys == {"s1", "s2"}
NoObject == 0
Publishers == 1..MaxPublishers
SubIds == 1..MaxSubs

VARIABLES
  \* ---- protocol.EventBus
  busSeq,        \* EventBus.seq
  subscribers,   \* keys of EventBus.subscribers
  subFilter,     \* per EventSubscriber: Channel, EventTypes, Callback
  subMade,       \* EventSubscriber objects created so far
  subSend,       \* per EventSubscriber: the send channel's content
  subClosed,     \* per EventSubscriber: close(sub.send) was called
  unsubReturned, \* history: per EventSubscriber, an Unsubscribe of it returned
  pubPc,         \* per publisher: where it is inside Publish
  pubEvent,      \* per publisher: the Event it constructed
  pubTodo,       \* per publisher: subscribers its range loop has yet to visit
  busFault,      \* a runtime fault of the bus (panic or fatal error)
  published,     \* the Events the gateway's own handlers have published
  \* ---- Gateway
  gwStarted, gctx, ownCtxDone, callerCtxDone, serverPc, hubPc, wg, panicked,
  clients, register, broadcast, stopPc, stopClients, nBroadcasts, agentRuntime,
  clientsLock,   \* Gateway.clientsLock: "free", or who holds it for writing
  stopTodo,      \* Gateway.Stop: clients its close loop has yet to visit
  \* ---- Client and ws.Conn, per connection
  accepted, status, sessionID, deviceID, lastSeen,
  connCtxDone, sockClosed, send, receive, recvClosed,
  readPc, writePc, msgPc, framesIn,
  connLastSeen,  \* per connection: Conn.lastSeen
  \* ---- clock and Heartbeat
  now, hbPc, nextCheck,
  hbSeq,         \* Heartbeat.seq
  hbSince,       \* history: the instant Heartbeat.Start ran
  registeredAt,  \* history: per client, the instant runHub registered it
                 \* under a running heartbeat manager (else 0)
  \* ---- commands.Registry
  cmdReq,        \* the request last handed to Registry.Handle
  cmdReply,      \* what that call returned
  \* ---- Gateway.StartAgent
  agentCall,     \* per client: the agent.start request whose StartAgent call
                 \* has passed the running check and not yet returned
  orphans,       \* runtimes still running that g.agentRuntime no longer
                 \* points to
  \* ---- session.Manager
  smSessions,    \* Manager.sessions: per session id the Session stored, or
                 \* NoObject
  smMade,        \* Session objects created so far
  smPc,          \* per caller: where it is inside GetOrCreate
  smKey,         \* per caller: the session id it asked for
  smRet          \* per caller: the Session its last call returned

busVars == <<busSeq, subscribers, subFilter, subMade, subSend, subClosed,
             unsubReturned,
             pubPc, pubEvent, pubTodo, busFault>>
gwVars == <<gwStarted, gctx, ownCtxDone, callerCtxDone, serverPc, hubPc, wg,
            panicked, clients, register, broadcast, stopPc, stopClients,
            nBroadcasts, agentRuntime, clientsLock, stopTodo>>
clientVars == <<accepted, status, sessionID, deviceID, lastSeen>>
connVars == <<connCtxDone, sockClosed, send, receive, recvClosed,
              readPc, writePc, msgPc, framesIn, connLastSeen>>
hbVars == <<now, hbPc, nextCheck, hbSeq, hbSince, registeredAt>>
smVars == <<smSessions, smMade, smPc, smKey, smRet>>
svcVars == <<cmdReq, cmdReply, agentCall, orphans, smVars>>
vars == <<busVars, published, gwVars, clientVars, connVars, hbVars, svcVars>>

(***************************************************************************)
(* protocol.EventBus                                                       *)
(***************************************************************************)
EventClientConnected == "client.connected"
EventClientDisconnected == "client.disconnected"
EventCustom == "custom"
EventTypes == {EventClientConnected, EventClientDisconnected, EventCustom}
\* channel tags; "" is the empty tag
Channels == {"", "c1", "c2"}

NoEvent == [type |-> "", channel |-> "", seq |-> 0, client |-> 0]
NoFilter == [channel |-> "", types |-> {}, callback |-> "nil"]

\* matchFilter with the channel filter left out.
matchFilterAnyChannel(sub, eventType, channel) ==
  subFilter[sub].types # {} => eventType \in subFilter[sub].types

\* matchFilter: the subscriber's filters against an event's type and channel
matchFilter(sub, eventType, channel) ==
  /\ ~(subFilter[sub].channel # "" /\ subFilter[sub].channel # channel)
  /\ (subFilter[sub].types # {} => eventType \in subFilter[sub].types)

\* The Event that Publish constructs once it holds the next sequence number.
NewEvent(eventType, channel, seq, client) ==
  [type |-> eventType, channel |-> channel, seq |-> seq, client |-> client]

\* Nobody holds eb.mu for reading: a writer can take the lock.
BusUnlocked == \A p \in Publishers : pubPc[p] # "delivering"

BusInit ==
  /\ busSeq = 0
  /\ subscribers = {}
  /\ subFilter = [s \in SubIds |-> NoFilter]
  /\ subMade = 0
  /\ subSend = [s \in SubIds |-> <<>>]
  /\ subClosed = [s \in SubIds |-> FALSE]
  /\ unsubReturned = [s \in SubIds |-> FALSE]
  /\ pubPc = [p \in Publishers |-> "idle"]
  /\ pubEvent = [p \in Publishers |-> NoEvent]
  /\ pubTodo = [p \in Publishers |-> {}]
  /\ busFault = "none"
  /\ published = <<>>

\* EventBus.Subscribe: a new subscriber object with an empty queue.
Subscribe(channel, types, callback) ==
  /\ busFault = "none"
  /\ BusUnlocked
  /\ subMade < MaxSubs
  /\ subMade' = subMade + 1
  /\ subscribers' = subscribers \cup {subMade + 1}
  /\ subFilter' = [subFilter EXCEPT ![subMade + 1] =
                     [channel |-> channel, types |-> types, callback |-> callback]]
  /\ UNCHANGED <<busSeq, subSend, subClosed, pubPc, pubEvent, pubTodo,
                 busFault, published>>
  /\ UNCHANGED unsubReturned
  /\ UNCHANGED <<gwVars, clientVars, connVars, hbVars, svcVars>>

\* EventBus.Unsubscribe: delete and close, only when still in the map.
Unsubscribe(sub) ==
  /\ busFault = "none"
  /\ BusUnlocked
  /\ sub <= subMade
  /\ IF sub \in subscribers
       THEN /\ subscribers' = subscribers \ {sub}
            /\ IF subClosed[sub]
                 THEN /\ busFault' = "close of closed channel"
                      /\ UNCHANGED subClosed
                 ELSE /\ subClosed' = [subClosed EXCEPT ![sub] = TRUE]
                      /\ UNCHANGED busFault
       ELSE UNCHANGED <<subscribers, subClosed, busFault>>
  /\ unsubReturned' = [unsubReturned EXCEPT ![sub] = TRUE]
  /\ UNCHANGED <<busSeq, subFilter, subMade, subSend, pubPc, pubEvent,
                 pubTodo, published>>
  /\ UNCHANGED <<gwVars, clientVars, connVars, hbVars, svcVars>>

\* PublishAssign with the counter read but not advanced.
PublishAssignNoIncrement(p, eventType, channel) ==
  /\ busFault = "none"
  /\ pubPc[p] = "idle"
  /\ \A q \in Publishers : q < p => pubPc[q] # "idle"
  /\ BusUnlocked
  /\ busSeq < MaxSeq
  /\ pubEvent' = [pubEvent EXCEPT ![p] = NewEvent(eventType, channel, busSeq + 1, 0)]
  /\ pubPc' = [pubPc EXCEPT ![p] = "assigned"]
  /\ UNCHANGED <<busSeq, subscribers, subFilter, subMade, subSend, subClosed,
                 pubTodo, busFault, published>>
  /\ UNCHANGED unsubReturned
  /\ UNCHANGED <<gwVars, clientVars, connVars, hbVars, svcVars>>

\* Publish / PublishData, first critical section: eb.seq++ under eb.mu.Lock,
\* then the Event is built outside any lock.  The calling goroutines are
\* interchangeable: a call is run by the idle one of least number.
PublishAssign(p, eventType, channel) ==
  /\ busFault = "none"
  /\ pubPc[p] = "idle"
  /\ \A q \in Publishers : q < p => pubPc[q] # "idle"
  /\ BusUnlocked
  /\ busSeq < MaxSeq
  /\ busSeq' = busSeq + 1
  /\ pubEvent' = [pubEvent EXCEPT ![p] = NewEvent(eventType, channel, busSeq + 1, 0)]
  /\ pubPc' = [pubPc EXCEPT ![p] = "assigned"]
  /\ UNCHANGED <<subscribers, subFilter, subMade, subSend, subClosed, pubTodo,
                 busFault, published>>
  /\ UNCHANGED unsubReturned
  /\ UNCHANGED <<gwVars, clientVars, connVars, hbVars, svcVars>>

\* eb.mu.RLock and the start of the range over eb.subscribers.
PublishRLock(p) ==
  /\ busFault = "none"
  /\ pubPc[p] = "assigned"
  /\ pubPc' = [pubPc EXCEPT ![p] = "delivering"]
  /\ pubTodo' = [pubTodo EXCEPT ![p] = subscribers]
  /\ UNCHANGED <<busSeq, subscribers, subFilter, subMade, subSend, subClosed,
                 pubEvent, busFault, published>>
  /\ UNCHANGED unsubReturned
  /\ UNCHANGED <<gwVars, clientVars, connVars, hbVars, svcVars>>

\* What the non-blocking send of one loop iteration does to subscriber sub:
\* the send case when the queue has room, else the callback path, which
\* deletes the subscriber from the map when the callback returns false.
DeliverSend(sub, event) ==
  IF Len(subSend[sub]) < SubCap THEN Append(subSend[sub], event) ELSE subSend[sub]

DeliverDrops(sub) ==
  /\ Len(subSend[sub]) >= SubCap
  /\ subFilter[sub].callback = "drop"

\* One iteration of the range loop of Publish / PublishData.
PublishDeliver(p, sub) ==
  /\ busFault = "none"
  /\ pubPc[p] = "delivering"
  /\ sub \in pubTodo[p] \cap subscribers
  /\ pubTodo' = [pubTodo EXCEPT ![p] = @ \ {sub}]
  /\ IF ~matchFilter(sub, pubEvent[p].type, pubEvent[p].channel)
       THEN UNCHANGED <<subSend, subscribers, busFault>>
       ELSE IF subClosed[sub]
         THEN /\ busFault' = "send on closed channel"
              /\ UNCHANGED <<subSend, subscribers>>
         ELSE /\ subSend' = [subSend EXCEPT ![sub] = DeliverSend(sub, pubEvent[p])]
              /\ IF DeliverDrops(sub)
                   THEN \* a map write under the read lock: with another
                        \* reader inside its range loop the runtime may
                        \* detect it and abort, or may not
                        /\ subscribers' = subscribers \ {sub}
                        /\ \/ UNCHANGED busFault
                           \/ /\ \E q \in Publishers \ {p} : pubPc[q] = "delivering"
                              /\ busFault' = "concurrent map iteration and map write"
                   ELSE UNCHANGED <<subscribers, busFault>>
  /\ UNCHANGED <<busSeq, subFilter, subMade, subClosed, pubPc, pubEvent, published>>
  /\ UNCHANGED unsubReturned
  /\ UNCHANGED <<gwVars, clientVars, connVars, hbVars, svcVars>>

\* The range loop is over: the deferred eb.mu.RUnlock, and Publish returns.
PublishReturn(p) ==
  /\ busFault = "none"
  /\ pubPc[p] = "delivering"
  /\ pubTodo[p] \cap subscribers = {}
  /\ pubPc' = [pubPc EXCEPT ![p] = "idle"]
  /\ pubTodo' = [pubTodo EXCEPT ![p] = {}]
  /\ pubEvent' = [pubEvent EXCEPT ![p] = NoEvent]
  /\ UNCHANGED <<busSeq, subscribers, subFilter, subMade, subSend, subClosed,
                 busFault, published>>
  /\ UNCHANGED unsubReturned
  /\ UNCHANGED <<gwVars, clientVars, connVars, hbVars, svcVars>>

\* The owner of a subscription takes the next event off its queue
\* (a receive on GetSubscriberChannel(sub)).
SubscriberReceive(sub) ==
  /\ busFault = "none"
  /\ subSend[sub] # <<>>
  /\ subSend' = [subSend EXCEPT ![sub] = Tail(@)]
  /\ UNCHANGED <<busSeq, subscribers, subFilter, subMade, subClosed, pubPc,
                 pubEvent, pubTodo, busFault, published>>
  /\ UNCHANGED unsubReturned
  /\ UNCHANGED <<gwVars, clientVars, connVars, hbVars, svcVars>>


\* A whole Publish call made by one goroutine with no other publisher
\* running: both critical sections and the range loop.
PublishCall(eventType, channel, client) ==
  LET event == NewEvent(eventType, channel, busSeq + 1, client)
      hit == {s \in subscribers : matchFilter(s, eventType, channel)}
  IN /\ busSeq' = busSeq + 1
     /\ published' = Append(published, event)
     /\ subSend' = [s \in SubIds |->
                      IF s \in hit THEN DeliverSend(s, event) ELSE subSend[s]]
     /\ subscribers' = subscribers \ {s \in hit : DeliverDrops(s)}
     /\ UNCHANGED <<subFilter, subMade, subClosed, unsubReturned, pubPc,
                    pubEvent, pubTodo, busFault>>

(***************************************************************************)
(* Wire messages                                                           *)
(***************************************************************************)
TypeReq == "req"
TypeRes == "res"
TypeEvent == "event"

NoSession == -1

\* An inbound frame as the peer sends it.  params stands for the JSON of
\* the params field: "d1" is {"deviceId":"d1"}, "nodevice" is an object
\* without a device id, "malformed" is not an object, "obj" is {}.
Frame(type, id, method, params) ==
  [type |-> type, id |-> id, method |-> method, params |-> params]

\* An outbound message as it is put on Conn.send.
Response(id, ok, error, kind, device, session) ==
  [type |-> TypeRes, id |-> id, ok |-> ok, error |-> error, kind |-> kind,
   device |-> device, session |-> session, snapshot |-> session]

\* The broadcast payloads handed to Gateway.Broadcast.
BroadcastMsg(n) ==
  [type |-> TypeEvent, id |-> n, ok |-> FALSE, error |-> "", kind |-> "broadcast",
   device |-> "", session |-> NoSession, snapshot |-> NoSession]

\* the nil error
NoError == <<>>

\* no request and the nil message
NoFrame == Frame("", 0, "", "")
NoReply == [type |-> ""]

\* The empty payload that Heartbeat.sendPing hands to Conn.WriteRaw.
PingRaw ==
  [type |-> "raw", id |-> 0, ok |-> FALSE, error |-> NoError, kind |-> "ping",
   device |-> "", session |-> NoSession, snapshot |-> NoSession]

\* The id of a message whose "id" field is absent or the empty string.
EmptyId == 0

\* Serializer.Unmarshal as readPump uses it: the type must be one of three.
Unmarshal(f) == f.type \in {TypeReq, TypeRes, TypeEvent}

(***************************************************************************)
(* ws.Conn                                                                 *)
(***************************************************************************)
\* Conn.Write as a plain channel send guarded by ctx.Done only, without the
\* default case and its capacity test.
WriteOutcomesNoDefault(c, m) ==
  {[queue |-> Append(send[c], m), err |-> "nil"]}
    \cup (IF connCtxDone[c]
            THEN {[queue |-> send[c], err |-> "connection closed"]} ELSE {})

\* Conn.Write / Conn.WriteRaw: a select over the send case, ctx.Done and
\* default.  The result is the set of outcomes the call can have, each the
\* queue it leaves behind and the error it returns: Go picks any ready
\* case, and default only when none is ready.
WriteOutcomes(c, m) ==
  (IF Len(send[c]) < SendCap
     THEN {[queue |-> Append(send[c], m), err |-> "nil"]} ELSE {})
    \cup (IF connCtxDone[c]
            THEN {[queue |-> send[c], err |-> "connection closed"]} ELSE {})
    \cup (IF Len(send[c]) >= SendCap /\ ~connCtxDone[c]
            THEN {[queue |-> send[c], err |-> "send buffer full"]} ELSE {})

\* The queues a Conn.Write / Conn.WriteRaw call can leave behind.
ConnWrite(c, m) == {o.queue : o \in WriteOutcomes(c, m)}

\* Conn.IsAlive
IsAlive(c) == ~connCtxDone[c]

\* A connection counts as closed once its context is cancelled or its
\* socket is closed.
ConnClosed(c) == connCtxDone[c] \/ sockClosed[c]

\* sync.WaitGroup.Done: a negative counter panics.
WgDone ==
  /\ wg' = wg - 1
  /\ panicked' = (wg - 1 < 0)

GctxDone == IF gctx = "own" THEN ownCtxDone ELSE callerCtxDone

GatewayInit ==
  /\ gwStarted = FALSE
  /\ gctx = "own"
  /\ ownCtxDone = FALSE
  /\ callerCtxDone = FALSE
  /\ serverPc = "none"
  /\ hubPc = "none"
  /\ wg = 0
  /\ panicked = FALSE
  /\ clients = {}
  /\ register = <<>>
  /\ broadcast = <<>>
  /\ stopPc = "idle"
  /\ stopClients = {}
  /\ nBroadcasts = 0
  /\ agentRuntime = "nil"
  /\ clientsLock = "free"
  /\ stopTodo = {}
  /\ accepted = [c \in ClientIds |-> FALSE]
  /\ status = [c \in ClientIds |-> ""]
  /\ sessionID = [c \in ClientIds |-> NoSession]
  /\ deviceID = [c \in ClientIds |-> ""]
  /\ lastSeen = [c \in ClientIds |-> 0]
  /\ connCtxDone = [c \in ClientIds |-> FALSE]
  /\ sockClosed = [c \in ClientIds |-> FALSE]
  /\ send = [c \in ClientIds |-> <<>>]
  /\ receive = [c \in ClientIds |-> <<>>]
  /\ recvClosed = [c \in ClientIds |-> FALSE]
  /\ readPc = [c \in ClientIds |-> "none"]
  /\ writePc = [c \in ClientIds |-> "none"]
  /\ msgPc = [c \in ClientIds |-> "none"]
  /\ framesIn = [c \in ClientIds |-> 0]
  /\ connLastSeen = [c \in ClientIds |-> 0]
  /\ now = 0
  /\ hbPc = "none"
  /\ nextCheck = 0
  /\ hbSeq = 0
  /\ hbSince = 0
  /\ registeredAt = [c \in ClientIds |-> 0]
  /\ cmdReq = NoFrame
  /\ cmdReply = NoReply
  /\ agentCall = [c \in ClientIds |-> NoFrame]
  /\ orphans = 0
  /\ smSessions = [k \in SessionKeys |-> NoObject]
  /\ smMade = 0
  /\ smPc = [g \in Callers |-> "idle"]
  /\ smKey = [g \in Callers |-> "s1"]
  /\ smRet = [g \in Callers |-> NoObject]

Init == BusInit /\ GatewayInit


(***************************************************************************)
(* Gateway: Start, the accept path and the hub loop                        *)
(***************************************************************************)
\* Gateway.Start: g.ctx is replaced by the caller's context, the hub loop is
\* counted on the WaitGroup and started, the server goroutine is started
\* without being counted.
Start ==
  /\ ~panicked
  /\ ~gwStarted
  /\ stopPc = "idle"
  /\ gwStarted' = TRUE
  /\ gctx' = "caller"
  /\ serverPc' = "serving"
  /\ hubPc' = "running"
  /\ wg' = wg + 1
  /\ UNCHANGED <<ownCtxDone, callerCtxDone, panicked, clients, register,
                 broadcast, stopPc, nBroadcasts, agentRuntime,
                 stopClients,
                 clientsLock, stopTodo>>
  /\ UNCHANGED <<busVars, published, clientVars, connVars, hbVars, svcVars>>

\* The caller of Start cancels the context it passed.
CallerCancel ==
  /\ ~panicked
  /\ gwStarted
  /\ ~callerCtxDone
  /\ callerCtxDone' = TRUE
  /\ UNCHANGED <<gwStarted, gctx, ownCtxDone, serverPc, hubPc, wg, panicked,
                 clients, register, broadcast, stopPc, nBroadcasts, agentRuntime,
                 stopClients,
                 clientsLock, stopTodo>>
  /\ UNCHANGED <<busVars, published, clientVars, connVars, hbVars, svcVars>>

\* Gateway.handleConnection: the Client is created, sent on g.register (the
\* send blocks while the channel is full), the pumps are started and the
\* message goroutine is counted and started.
handleConnection(c) ==
  /\ ~panicked
  /\ serverPc = "serving"
  /\ ~accepted[c]
  /\ \A d \in ClientIds : d < c => accepted[d]
  /\ Len(register) < RegisterCap
  /\ register' = Append(register, c)
  /\ accepted' = [accepted EXCEPT ![c] = TRUE]
  /\ status' = [status EXCEPT ![c] = "connected"]
  /\ lastSeen' = [lastSeen EXCEPT ![c] = now]
  /\ readPc' = [readPc EXCEPT ![c] = "running"]
  /\ writePc' = [writePc EXCEPT ![c] = "running"]
  /\ msgPc' = [msgPc EXCEPT ![c] = "running"]
  /\ wg' = wg + 1
  /\ UNCHANGED <<gwStarted, gctx, ownCtxDone, callerCtxDone, serverPc, hubPc,
                 panicked, clients, broadcast, stopPc, nBroadcasts, agentRuntime,
                 stopClients,
                 clientsLock, stopTodo>>
  /\ connLastSeen' = [connLastSeen EXCEPT ![c] = now]
  /\ UNCHANGED <<sessionID, deviceID, connCtxDone, sockClosed, send, receive,
                 recvClosed, framesIn>>
  /\ UNCHANGED <<busVars, published, hbVars, svcVars>>

\* runHub, case client := <-g.register
HubRegister ==
  /\ ~panicked
  /\ hubPc = "running"
  /\ register # <<>>
  /\ clientsLock = "free"
  /\ clients' = clients \cup {Head(register)}
  /\ register' = Tail(register)
  /\ registeredAt' = [registeredAt EXCEPT ![Head(register)] =
                         IF hbPc = "running" THEN now ELSE 0]
  /\ UNCHANGED <<gwStarted, gctx, ownCtxDone, callerCtxDone, serverPc, hubPc, wg,
                 panicked, broadcast, stopPc, nBroadcasts, agentRuntime,
                 stopClients,
                 clientsLock, stopTodo>>
  /\ UNCHANGED <<now, hbPc, nextCheck, hbSeq, hbSince>>
  /\ UNCHANGED <<svcVars, busVars, published, clientVars, connVars>>

\* HubBroadcast with the loop returning at the first failed write: with a
\* full queue among the registered clients nobody is served.
HubBroadcastAbort ==
  /\ ~panicked
  /\ hubPc = "running"
  /\ broadcast # <<>>
  /\ clientsLock = "free"
  /\ broadcast' = Tail(broadcast)
  /\ send' = [c \in ClientIds |->
                IF c \in clients /\ \A d \in clients : Len(send[d]) < SendCap
                  THEN Append(send[c], Head(broadcast)) ELSE send[c]]
  /\ UNCHANGED <<gwStarted, gctx, ownCtxDone, callerCtxDone, serverPc, hubPc, wg,
                 panicked, clients, register, stopPc, nBroadcasts, agentRuntime,
                 stopClients,
                 clientsLock, stopTodo>>
  /\ UNCHANGED <<connCtxDone, sockClosed, receive, recvClosed, readPc, writePc,
                 msgPc, framesIn, connLastSeen>>
  /\ UNCHANGED <<busVars, published, clientVars, hbVars, svcVars>>

\* HubBroadcast with the message put at the head of each outbound queue
\* instead of its tail.
HubBroadcastInFront ==
  /\ ~panicked
  /\ hubPc = "running"
  /\ broadcast # <<>>
  /\ clientsLock = "free"
  /\ broadcast' = Tail(broadcast)
  /\ \E delivered \in SUBSET clients :
       /\ \A c \in delivered : Append(send[c], Head(broadcast)) \in ConnWrite(c, Head(broadcast))
       /\ \A c \in clients \ delivered : send[c] \in ConnWrite(c, Head(broadcast))
       /\ send' = [c \in ClientIds |->
                     IF c \in delivered THEN <<Head(broadcast)>> \o send[c] ELSE send[c]]
  /\ UNCHANGED <<gwStarted, gctx, ownCtxDone, callerCtxDone, serverPc, hubPc, wg,
                 panicked, clients, register, stopPc, nBroadcasts, agentRuntime,
                 stopClients,
                 clientsLock, stopTodo>>
  /\ UNCHANGED <<connCtxDone, sockClosed, receive, recvClosed, readPc, writePc,
                 msgPc, framesIn, connLastSeen>>
  /\ UNCHANGED <<busVars, published, clientVars, hbVars, svcVars>>

\* runHub, case message := <-g.broadcast: under the read lock, Conn.Write on
\* every registered client; an error is logged and the loop goes on.  delivered
\* is the set of clients whose select took the send case.
HubBroadcast ==
  /\ ~panicked
  /\ hubPc = "running"
  /\ broadcast # <<>>
  /\ clientsLock = "free"
  /\ broadcast' = Tail(broadcast)
  /\ \E delivered \in SUBSET clients :
       /\ \A c \in delivered : Append(send[c], Head(broadcast)) \in ConnWrite(c, Head(broadcast))
       /\ \A c \in clients \ delivered : send[c] \in ConnWrite(c, Head(broadcast))
       /\ send' = [c \in ClientIds |->
                     IF c \in delivered THEN Append(send[c], Head(broadcast)) ELSE send[c]]
  /\ UNCHANGED <<gwStarted, gctx, ownCtxDone, callerCtxDone, serverPc, hubPc, wg,
                 panicked, clients, register, stopPc, nBroadcasts, agentRuntime,
                 stopClients,
                 clientsLock, stopTodo>>
  /\ UNCHANGED <<connCtxDone, sockClosed, receive, recvClosed, readPc, writePc,
                 msgPc, framesIn, connLastSeen>>
  /\ UNCHANGED <<busVars, published, clientVars, hbVars, svcVars>>

\* runHub, case <-g.ctx.Done(): return, and the deferred g.wg.Done().
HubCtxDone ==
  /\ ~panicked
  /\ hubPc = "running"
  /\ GctxDone
  /\ hubPc' = "exited"
  /\ WgDone
  /\ UNCHANGED <<gwStarted, gctx, ownCtxDone, callerCtxDone, serverPc, clients,
                 register, broadcast, stopPc, nBroadcasts, agentRuntime,
                 stopClients,
                 clientsLock, stopTodo>>
  /\ UNCHANGED <<busVars, published, clientVars, connVars, hbVars, svcVars>>

\* Gateway.Broadcast: a non-blocking send on g.broadcast, dropped when full.
Broadcast ==
  /\ ~panicked
  /\ nBroadcasts < MaxBroadcasts
  /\ nBroadcasts' = nBroadcasts + 1
  /\ broadcast' = IF Len(broadcast) < BroadcastCap
                    THEN Append(broadcast, BroadcastMsg(nBroadcasts + 1))
                    ELSE broadcast
  /\ UNCHANGED <<gwStarted, gctx, ownCtxDone, callerCtxDone, serverPc, hubPc, wg,
                 panicked, clients, register, stopPc, agentRuntime,
                 stopClients,
                 clientsLock, stopTodo>>
  /\ UNCHANGED <<busVars, published, clientVars, connVars, hbVars, svcVars>>

(***************************************************************************)
(* ws.Conn: readPump and writePump                                         *)
(***************************************************************************)
\* readPump's deferred function: close(c.receive) and c.cancel().
ReadPumpExit(c) ==
  /\ readPc' = [readPc EXCEPT ![c] = "exited"]
  /\ recvClosed' = [recvClosed EXCEPT ![c] = TRUE]
  /\ connCtxDone' = [connCtxDone EXCEPT ![c] = TRUE]

\* readPump, one frame read from the socket: a frame that does not decode is
\* logged and skipped; a decoded one goes through the select over the
\* receive channel, ctx.Done and default (drop).
ReadFrame(c, f) ==
  /\ ~panicked
  /\ readPc[c] = "running"
  /\ ~sockClosed[c]
  /\ framesIn[c] < MaxFrames
  /\ f.id \in {EmptyId, framesIn[c] + 1}
  /\ framesIn' = [framesIn EXCEPT ![c] = @ + 1]
  /\ connLastSeen' = IF Unmarshal(f) THEN [connLastSeen EXCEPT ![c] = now]
                                       ELSE connLastSeen
  /\ IF ~Unmarshal(f)
       THEN UNCHANGED <<receive, readPc, recvClosed, connCtxDone>>
       ELSE \/ /\ Len(receive[c]) < RecvCap
               /\ receive' = [receive EXCEPT ![c] = Append(@, f)]
               /\ UNCHANGED <<readPc, recvClosed, connCtxDone>>
            \/ /\ connCtxDone[c]
               /\ ReadPumpExit(c)
               /\ UNCHANGED receive
            \/ /\ Len(receive[c]) >= RecvCap
               /\ ~connCtxDone[c]
               /\ UNCHANGED <<receive, readPc, recvClosed, connCtxDone>>
  /\ UNCHANGED <<sockClosed, send, writePc, msgPc>>
  /\ UNCHANGED <<busVars, published, gwVars, clientVars, hbVars, svcVars>>

\* readPump's pong handler: a pong of the peer arrives; the read deadline
\* is pushed back and Conn.lastSeen is updated.
PongReceived(c) ==
  /\ ~panicked
  /\ readPc[c] = "running"
  /\ ~sockClosed[c]
  /\ connLastSeen[c] # now
  /\ connLastSeen' = [connLastSeen EXCEPT ![c] = now]
  /\ UNCHANGED <<connCtxDone, sockClosed, send, receive, recvClosed, readPc,
                 writePc, msgPc, framesIn>>
  /\ UNCHANGED <<busVars, published, gwVars, clientVars, hbVars, svcVars>>

\* readPump, ReadMessage fails because the socket was closed on this side.
ReadFail(c) ==
  /\ ~panicked
  /\ readPc[c] = "running"
  /\ sockClosed[c]
  /\ ReadPumpExit(c)
  /\ UNCHANGED <<sockClosed, send, receive, writePc, msgPc, framesIn, connLastSeen>>
  /\ UNCHANGED <<busVars, published, gwVars, clientVars, hbVars, svcVars>>

\* readPump, ReadMessage fails because the peer closed or went silent past
\* the read deadline.
PeerClose(c) ==
  /\ ~panicked
  /\ readPc[c] = "running"
  /\ ~sockClosed[c]
  /\ ReadPumpExit(c)
  /\ UNCHANGED <<sockClosed, send, receive, writePc, msgPc, framesIn, connLastSeen>>
  /\ UNCHANGED <<busVars, published, gwVars, clientVars, hbVars, svcVars>>

\* writePump's inner loop with each queued message put in front of the
\* frame instead of behind it.
RECURSIVE AddQueuedInFront(_, _, _)
AddQueuedInFront(frame, queue, n) ==
  IF n = 0 THEN frame
  ELSE AddQueuedInFront(<<Head(queue)>> \o frame, Tail(queue), n - 1)

\* writePump's inner loop "Add queued messages": n times, the next message
\* of the channel is written behind what the frame holds already.
RECURSIVE AddQueued(_, _, _)
AddQueued(frame, queue, n) ==
  IF n = 0 THEN frame
  ELSE AddQueued(Append(frame, Head(queue)), Tail(queue), n - 1)

\* The frame writePump writes when it finds queue q on Conn.send: the
\* message it received, then the len(c.send) messages queued behind it.
WrittenFrame(q) == AddQueued(<<Head(q)>>, Tail(q), Len(Tail(q)))

\* writePump, case message := <-c.send: the message and everything queued
\* behind it are written in one frame; a write on a closed socket fails and
\* the pump returns through its deferred conn.Close() and cancel().
WriteDrain(c) ==
  /\ ~panicked
  /\ writePc[c] = "running"
  /\ send[c] # <<>>
  /\ IF sockClosed[c]
       THEN /\ send' = [send EXCEPT ![c] = Tail(@)]
            /\ writePc' = [writePc EXCEPT ![c] = "exited"]
            /\ connCtxDone' = [connCtxDone EXCEPT ![c] = TRUE]
       ELSE /\ send' = [send EXCEPT ![c] = SubSeq(@, Len(WrittenFrame(@)) + 1, Len(@))]
            /\ UNCHANGED <<writePc, connCtxDone>>
  /\ UNCHANGED <<sockClosed, receive, recvClosed, readPc, msgPc, framesIn, connLastSeen>>
  /\ UNCHANGED <<busVars, published, gwVars, clientVars, hbVars, svcVars>>

\* writePump returning on a failed write with its deferred conn.Close()
\* left out.
WriteFailNoClose(c) ==
  /\ ~panicked
  /\ writePc[c] = "running"
  /\ ~sockClosed[c]
  /\ writePc' = [writePc EXCEPT ![c] = "exited"]
  /\ connCtxDone' = [connCtxDone EXCEPT ![c] = TRUE]
  /\ UNCHANGED <<sockClosed, send, receive, recvClosed, readPc, msgPc, framesIn, connLastSeen>>
  /\ UNCHANGED <<busVars, published, gwVars, clientVars, hbVars, svcVars>>

\* writePump, a write on the open socket fails (the peer is gone, or the
\* write deadline of writeWait passed): the ticker's ping (nothing taken
\* from Conn.send), NextWriter (the received message is lost) or w.Close
\* (the whole frame is lost).  The pump returns through its deferred
\* conn.Close() and cancel().
WriteFail(c) ==
  /\ ~panicked
  /\ writePc[c] = "running"
  /\ ~sockClosed[c]
  /\ \E taken \in {0, IF send[c] = <<>> THEN 0 ELSE 1, Len(send[c])} :
       send' = [send EXCEPT ![c] = SubSeq(@, taken + 1, Len(@))]
  /\ writePc' = [writePc EXCEPT ![c] = "exited"]
  /\ sockClosed' = [sockClosed EXCEPT ![c] = TRUE]
  /\ connCtxDone' = [connCtxDone EXCEPT ![c] = TRUE]
  /\ UNCHANGED <<receive, recvClosed, readPc, msgPc, framesIn, connLastSeen>>
  /\ UNCHANGED <<busVars, published, gwVars, clientVars, hbVars, svcVars>>

\* writePump, case <-c.ctx.Done(): return through the deferred conn.Close().
WriteCtxDone(c) ==
  /\ ~panicked
  /\ writePc[c] = "running"
  /\ connCtxDone[c]
  /\ writePc' = [writePc EXCEPT ![c] = "exited"]
  /\ sockClosed' = [sockClosed EXCEPT ![c] = TRUE]
  /\ UNCHANGED <<connCtxDone, send, receive, recvClosed, readPc, msgPc, framesIn, connLastSeen>>
  /\ UNCHANGED <<busVars, published, gwVars, clientVars, hbVars, svcVars>>

(***************************************************************************)
(* Gateway: message dispatch                                               *)
(***************************************************************************)
\* the methods ws.DefaultHandler registers
WsHandlers == {"connect", "ping", "state"}

\* Which handler a message reaches: the order of the tests in
\* Gateway.handleMessage, then Handler.HandleMessage and handleRequest.
HandlerOf(f) ==
  IF f.type = TypeReq /\ f.method = "agent.start" THEN "agent.start"
  ELSE IF f.type = TypeReq /\ f.method = "agent.stop" THEN "agent.stop"
  ELSE IF f.type = TypeReq /\ f.method = "agent.status" THEN "agent.status"
  ELSE IF f.type = TypeReq /\ f.method = "connect" THEN "connect"
  ELSE IF f.type = TypeReq /\ f.method # ""
    THEN IF f.method \in WsHandlers THEN "ws" ELSE "unknown"
  ELSE "ignored"

\* ConnectRequest.Validate: the device identifier must be present.
Validate(f) == f.params # "nodevice"

\* handleConnect goes through: the params decode and validate.
ConnectOk(f) == f.params # "malformed" /\ Validate(f)

\* HelloResponse with the request's id left out of the response.
HelloResponseNoId(f, session) ==
  Response(0, TRUE, NoError, "hello", f.params, session)

\* The HelloResponse that handleConnect marshals: the request's id, ok, and
\* a payload with the device id, the session id and the state snapshot.
HelloResponse(f, session) ==
  Response(f.id, TRUE, NoError, "hello", f.params, session)

\* Answer with the unknown-method error left without the method's name.
AnswerNoMethod(f) ==
  CASE HandlerOf(f) = "agent.status" ->
         Response(f.id, TRUE, NoError, "agent.status", "", NoSession)
    [] HandlerOf(f) = "ws" /\ f.params = "none" ->
         Response(f.id, FALSE, <<"unexpected end of JSON input">>, "", "", NoSession)
    [] HandlerOf(f) = "ws" /\ f.params # "none" ->
         Response(f.id, TRUE, NoError, f.method, "", NoSession)
    [] OTHER ->
         Response(f.id, FALSE, <<"unknown method">>, "", "", NoSession)

\* Answer with the payload kept next to the error when the params of a ws
\* handler do not decode.
AnswerErrorWithPayload(f) ==
  CASE HandlerOf(f) = "agent.status" ->
         Response(f.id, TRUE, NoError, "agent.status", "", NoSession)
    [] HandlerOf(f) = "ws" /\ f.params = "none" ->
         Response(f.id, FALSE, <<"unexpected end of JSON input">>, f.method, "", NoSession)
    [] HandlerOf(f) = "ws" /\ f.params # "none" ->
         Response(f.id, TRUE, NoError, f.method, "", NoSession)
    [] OTHER ->
         Response(f.id, FALSE, <<"unknown method: ", f.method>>, "", "", NoSession)

\* The answer of the handlers that always answer: agent.status, the ws
\* handlers ping and state, and handleRequest's unknown-method branch.
\* A ws handler whose params do not decode returns the error, which
\* handleRequest sends back.
Answer(f) ==
  CASE HandlerOf(f) = "agent.status" ->
         Response(f.id, TRUE, NoError, "agent.status", "", NoSession)
    [] HandlerOf(f) = "ws" /\ f.params = "none" ->
         Response(f.id, FALSE, <<"unexpected end of JSON input">>, "", "", NoSession)
    [] HandlerOf(f) = "ws" /\ f.params # "none" ->
         Response(f.id, TRUE, NoError, f.method, "", NoSession)
    [] OTHER ->
         Response(f.id, FALSE, <<"unknown method: ", f.method>>, "", "", NoSession)

\* The queues the answering handlers can leave behind.  A ws handler that
\* went through returns the error of its own Conn.WriteResponse, and
\* handleRequest then writes that error as a second response: it can only
\* get onto the queue when the first write lost against ctx.Done.
AnswerWrites(c, f) ==
  ConnWrite(c, Answer(f))
    \cup UNION { ConnWrite(c, Response(f.id, FALSE, <<o.err>>, "", "", NoSession)) :
                   o \in {w \in WriteOutcomes(c, Answer(f)) :
                            /\ w.err # "nil"
                            /\ HandlerOf(f) = "ws"
                            /\ f.params # "none"} }

\* The error handleAgentStart returns, NoError when it goes through: the
\* params must decode to a Config ("malformed" does not), StartAgent
\* refuses while a runtime is running, and agent.NewRuntime knows the
\* provider "anthropic" alone.
AgentStartError(f) ==
  IF f.params = "malformed" THEN <<"invalid character">>
  ELSE IF agentRuntime = "running" THEN <<"agent runtime is already running">>
  ELSE IF f.params # "anthropic" THEN <<"failed to create agent runtime">>
  ELSE NoError

\* The error handleAgentStop returns: StopAgent refuses without a runtime.
AgentStopError ==
  IF agentRuntime = "nil" THEN <<"agent runtime is not running">> ELSE NoError

\* Gateway.handleMessage for client c and message f.
handleMessage(c, f) ==
  /\ lastSeen' = [lastSeen EXCEPT ![c] = now]
  /\ CASE HandlerOf(f) = "agent.start" /\ AgentStartError(f) = NoError ->
            \* StartAgent stores and starts the runtime, then the response
            /\ agentRuntime' = "running"
            /\ \E q \in ConnWrite(c, Response(f.id, TRUE, NoError, "agent.start",
                                               "", NoSession)) :
                 send' = [send EXCEPT ![c] = q]
            /\ UNCHANGED <<deviceID, sessionID, busVars, published>>
       [] HandlerOf(f) = "agent.stop" /\ AgentStopError = NoError ->
            /\ agentRuntime' = "nil"
            /\ \E q \in ConnWrite(c, Response(f.id, TRUE, NoError, "agent.stop",
                                               "", NoSession)) :
                 send' = [send EXCEPT ![c] = q]
            /\ UNCHANGED <<deviceID, sessionID, busVars, published>>
       [] \/ HandlerOf(f) = "agent.start" /\ AgentStartError(f) # NoError
          \/ HandlerOf(f) = "agent.stop" /\ AgentStopError # NoError ->
            \* the handler returns the error; handleClientMessages logs it
            UNCHANGED <<deviceID, sessionID, send, busVars, published,
                        agentRuntime>>
       [] HandlerOf(f) = "connect" /\ ConnectOk(f) ->
            \* handleConnect: the session id is minted from the clock, the
            \* result of Conn.Write is not looked at, the event is published
            /\ deviceID' = [deviceID EXCEPT ![c] = f.params]
            /\ sessionID' = [sessionID EXCEPT ![c] = now]
            /\ \E q \in ConnWrite(c, HelloResponse(f, now)) :
                 send' = [send EXCEPT ![c] = q]
            /\ PublishCall(EventClientConnected, "", c)
            /\ UNCHANGED agentRuntime
       [] HandlerOf(f) = "connect" /\ ~ConnectOk(f) ->
            \* handleConnect returns the error; handleClientMessages logs it
            UNCHANGED <<deviceID, sessionID, send, busVars, published,
                        agentRuntime>>
       [] HandlerOf(f) = "ignored" ->
            UNCHANGED <<deviceID, sessionID, send, busVars, published,
                        agentRuntime>>
       [] OTHER ->
            /\ \E q \in AnswerWrites(c, f) : send' = [send EXCEPT ![c] = q]
            /\ UNCHANGED <<deviceID, sessionID, busVars, published,
                           agentRuntime>>

\* handleClientMessages, case msg, ok := <-client.Conn.Receive() with ok.
MsgRecv(c) ==
  /\ ~panicked
  /\ msgPc[c] = "running"
  /\ receive[c] # <<>>
  /\ receive' = [receive EXCEPT ![c] = Tail(@)]
  /\ handleMessage(c, Head(receive[c]))
  /\ UNCHANGED <<accepted, status>>
  /\ UNCHANGED <<connCtxDone, sockClosed, recvClosed, readPc, writePc, msgPc,
                 framesIn, connLastSeen>>
  /\ UNCHANGED <<gwStarted, gctx, ownCtxDone, callerCtxDone, serverPc, hubPc, wg,
                 panicked, clients, register, broadcast, stopPc, stopClients,
                 nBroadcasts,
                 clientsLock, stopTodo>>
  /\ UNCHANGED <<hbVars, svcVars>>

\* handleClientMessages taking a message other than agent.start while no
\* StartAgent call of this goroutine is in flight.
MsgRecvOther(c) ==
  /\ agentCall[c] = NoFrame
  /\ receive[c] # <<>>
  /\ HandlerOf(Head(receive[c])) # "agent.start"
  /\ MsgRecv(c)

\* handleClientMessages takes an agent.start request: handleMessage,
\* handleAgentStart decodes the config, and StartAgent tests, with no lock
\* held, whether a runtime is running.  A config that does not decode and
\* a running runtime end the call with an error that is logged.
AgentStartCheck(c) ==
  /\ ~panicked
  /\ msgPc[c] = "running"
  /\ agentCall[c] = NoFrame
  /\ receive[c] # <<>>
  /\ HandlerOf(Head(receive[c])) = "agent.start"
  /\ receive' = [receive EXCEPT ![c] = Tail(@)]
  /\ lastSeen' = [lastSeen EXCEPT ![c] = now]
  /\ agentCall' = [agentCall EXCEPT ![c] =
                     IF Head(receive[c]).params = "malformed" \/ agentRuntime = "running"
                       THEN NoFrame ELSE Head(receive[c])]
  /\ UNCHANGED <<accepted, status, sessionID, deviceID>>
  /\ UNCHANGED <<connCtxDone, sockClosed, send, recvClosed, readPc, writePc,
                 msgPc, framesIn, connLastSeen>>
  /\ UNCHANGED <<cmdReq, cmdReply, orphans, smVars>>
  /\ UNCHANGED <<busVars, published, gwVars, hbVars>>

\* StartAgent after the test: agent.NewRuntime (it knows the provider
\* "anthropic" alone), g.agentRuntime = runtime and Start; then
\* handleAgentStart writes the response.  A runtime that another call
\* stored and started in the meantime is overwritten and keeps running.
AgentStartCreate(c) ==
  /\ ~panicked
  /\ agentCall[c] # NoFrame
  /\ agentCall' = [agentCall EXCEPT ![c] = NoFrame]
  /\ IF agentCall[c].params # "anthropic"
       THEN UNCHANGED <<agentRuntime, orphans, send>>
       ELSE /\ agentRuntime' = "running"
            /\ orphans' = IF agentRuntime = "running" THEN orphans + 1 ELSE orphans
            /\ \E q \in ConnWrite(c, Response(agentCall[c].id, TRUE, NoError,
                                               "agent.start", "", NoSession)) :
                 send' = [send EXCEPT ![c] = q]
  /\ UNCHANGED <<connCtxDone, sockClosed, receive, recvClosed, readPc, writePc,
                 msgPc, framesIn, connLastSeen>>
  /\ UNCHANGED <<gwStarted, gctx, ownCtxDone, callerCtxDone, serverPc, hubPc, wg,
                 panicked, clients, register, broadcast, stopPc, stopClients,
                 nBroadcasts, clientsLock, stopTodo>>
  /\ UNCHANGED <<cmdReq, cmdReply, smVars>>
  /\ UNCHANGED <<busVars, published, clientVars, hbVars>>

\* handleClientMessages, the receive channel is closed and drained: return,
\* and the deferred g.wg.Done().
MsgRecvClosed(c) ==
  /\ ~panicked
  /\ msgPc[c] = "running"
  /\ receive[c] = <<>>
  /\ recvClosed[c]
  /\ msgPc' = [msgPc EXCEPT ![c] = "exited"]
  /\ WgDone
  /\ UNCHANGED <<gwStarted, gctx, ownCtxDone, callerCtxDone, serverPc, hubPc,
                 clients, register, broadcast, stopPc, nBroadcasts, agentRuntime,
                 stopClients,
                 clientsLock, stopTodo>>
  /\ UNCHANGED <<connCtxDone, sockClosed, send, receive, recvClosed, readPc,
                 writePc, framesIn, connLastSeen>>
  /\ UNCHANGED <<busVars, published, clientVars, hbVars, svcVars>>

\* handleClientMessages, case <-g.ctx.Done(): return, and g.wg.Done().
MsgCtxDone(c) ==
  /\ ~panicked
  /\ msgPc[c] = "running"
  /\ GctxDone
  /\ msgPc' = [msgPc EXCEPT ![c] = "exited"]
  /\ WgDone
  /\ UNCHANGED <<gwStarted, gctx, ownCtxDone, callerCtxDone, serverPc, hubPc,
                 clients, register, broadcast, stopPc, nBroadcasts, agentRuntime,
                 stopClients,
                 clientsLock, stopTodo>>
  /\ UNCHANGED <<connCtxDone, sockClosed, send, receive, recvClosed, readPc,
                 writePc, framesIn, connLastSeen>>
  /\ UNCHANGED <<busVars, published, clientVars, hbVars, svcVars>>

(***************************************************************************)
(* Client.Close and Gateway.Stop                                           *)
(***************************************************************************)
\* Client.Close on every client of cs: status "disconnected", then
\* Conn.Close, which cancels the connection's context and closes the socket.
\* The registry is not touched.
CloseClients(cs) ==
  /\ status' = [c \in ClientIds |-> IF c \in cs THEN "disconnected" ELSE status[c]]
  /\ connCtxDone' = [c \in ClientIds |-> (c \in cs) \/ connCtxDone[c]]
  /\ sockClosed' = [c \in ClientIds |-> (c \in cs) \/ sockClosed[c]]

\* Gateway.Stop, up to the server shutdown: g.cancel() cancels the context
\* made by New, and server.Shutdown() makes Serve return.
StopShutdown ==
  /\ ~panicked
  /\ gwStarted
  /\ stopPc = "idle"
  /\ stopPc' = "closing"
  /\ stopClients' = clients
  /\ ownCtxDone' = TRUE
  /\ serverPc' = IF serverPc = "serving" THEN "stopping" ELSE serverPc
  /\ UNCHANGED <<gwStarted, gctx, callerCtxDone, hubPc, wg, panicked, clients,
                 register, broadcast, nBroadcasts, agentRuntime,
                 clientsLock, stopTodo>>
  /\ UNCHANGED <<busVars, published, clientVars, connVars, hbVars, svcVars>>

\* The server goroutine: Serve has returned, and the deferred g.wg.Done().
ServerExit ==
  /\ ~panicked
  /\ serverPc = "stopping"
  /\ serverPc' = "exited"
  /\ WgDone
  /\ UNCHANGED <<gwStarted, gctx, ownCtxDone, callerCtxDone, hubPc, clients,
                 register, broadcast, stopPc, nBroadcasts, agentRuntime,
                 stopClients,
                 clientsLock, stopTodo>>
  /\ UNCHANGED <<busVars, published, clientVars, connVars, hbVars, svcVars>>

\* Gateway.Stop, "Close all clients": g.clientsLock.Lock().
StopCloseClients ==
  /\ ~panicked
  /\ stopPc = "closing"
  /\ clientsLock = "free"
  /\ clientsLock' = "stop"
  /\ stopTodo' = clients
  /\ stopPc' = "locked"
  /\ UNCHANGED <<gwStarted, gctx, ownCtxDone, callerCtxDone, serverPc, hubPc, wg,
                 panicked, clients, register, broadcast, nBroadcasts, agentRuntime,
                 stopClients>>
  /\ UNCHANGED <<busVars, published, clientVars, connVars, hbVars, svcVars>>

\* Gateway.Stop, one iteration of the loop over g.clients: client.Close(),
\* with the writer lock held.
StopCloseClient(c) ==
  /\ ~panicked
  /\ stopPc = "locked"
  /\ c \in stopTodo
  /\ stopTodo' = stopTodo \ {c}
  /\ CloseClients({c})
  /\ UNCHANGED <<gwStarted, gctx, ownCtxDone, callerCtxDone, serverPc, hubPc, wg,
                 panicked, clients, register, broadcast, nBroadcasts, agentRuntime,
                 stopClients, stopPc, clientsLock>>
  /\ UNCHANGED <<accepted, sessionID, deviceID, lastSeen>>
  /\ UNCHANGED <<send, receive, recvClosed, readPc, writePc, msgPc, framesIn, connLastSeen>>
  /\ UNCHANGED <<busVars, published, hbVars, svcVars>>

\* Gateway.Stop, the loop is over: g.clientsLock.Unlock().
StopUnlock ==
  /\ ~panicked
  /\ stopPc = "locked"
  /\ stopTodo = {}
  /\ clientsLock' = "free"
  /\ stopPc' = "waiting"
  /\ UNCHANGED <<gwStarted, gctx, ownCtxDone, callerCtxDone, serverPc, hubPc, wg,
                 panicked, clients, register, broadcast, nBroadcasts, agentRuntime,
                 stopClients, stopTodo>>
  /\ UNCHANGED <<busVars, published, clientVars, connVars, hbVars, svcVars>>

\* Gateway.Stop, g.wg.Wait() returns once the counter is zero; Stop returns.
StopWait ==
  /\ ~panicked
  /\ stopPc = "waiting"
  /\ wg = 0
  /\ stopPc' = "done"
  /\ UNCHANGED <<gwStarted, gctx, ownCtxDone, callerCtxDone, serverPc, hubPc, wg,
                 panicked, clients, register, broadcast, nBroadcasts, agentRuntime,
                 stopClients,
                 clientsLock, stopTodo>>
  /\ UNCHANGED <<busVars, published, clientVars, connVars, hbVars, svcVars>>

(***************************************************************************)
(* The clock and the Heartbeat manager                                     *)
(***************************************************************************)
\* One time unit is one minute.
\* HeartbeatConfig.IdleTimeout: 5 minutes
IdleTimeout == 5
\* HeartbeatConfig.CheckInterval: 1 minute
CheckInterval == 1

\* The clock advances.  With the idle loop running it does not pass an
\* instant at which the loop's ticker is due: the tick is handled first.
Tick(maxTime) ==
  /\ ~panicked
  /\ now < maxTime
  /\ hbPc = "running" => now < nextCheck
  /\ now' = now + 1
  /\ UNCHANGED <<hbPc, nextCheck, hbSeq, hbSince, registeredAt>>
  /\ UNCHANGED <<svcVars, busVars, published, gwVars, clientVars, connVars>>

\* Heartbeat.Start: the idle loop's ticker is created with CheckInterval.
HeartbeatStart ==
  /\ ~panicked
  /\ gwStarted
  /\ hbPc = "none"
  /\ hbPc' = "running"
  /\ nextCheck' = now + CheckInterval
  /\ hbSince' = now
  /\ UNCHANGED <<now, hbSeq, registeredAt>>
  /\ UNCHANGED <<svcVars, busVars, published, gwVars, clientVars, connVars>>

\* IdleClients with the threshold one check interval too long.
IdleClientsLate == {c \in clients : now - lastSeen[c] > IdleTimeout + CheckInterval}

\* The clients checkIdleClients closes at this instant.
IdleClients == {c \in clients : now - lastSeen[c] > IdleTimeout}

\* idleCheckLoop, case <-ticker.C: checkIdleClients closes every registered
\* client whose last activity is more than IdleTimeout ago.
CheckIdle ==
  /\ ~panicked
  /\ hbPc = "running"
  /\ now = nextCheck
  /\ nextCheck' = nextCheck + CheckInterval
  /\ CloseClients(IdleClients)
  /\ UNCHANGED <<now, hbPc, hbSeq, hbSince, registeredAt>>
  /\ UNCHANGED <<accepted, sessionID, deviceID, lastSeen>>
  /\ UNCHANGED <<send, receive, recvClosed, readPc, writePc, msgPc, framesIn, connLastSeen>>
  /\ UNCHANGED <<svcVars, busVars, published, gwVars>>

\* Client.IsConnected
IsConnected(c) == IsAlive(c)

\* The clients sendPingToAll pings without asking IsConnected first.
PingTargetsUnchecked == clients

\* The clients sendPingToAll pings: those of the registry whose
\* IsConnected is true.
PingTargets == {c \in clients : IsConnected(c)}

\* pingLoop, case <-ticker.C: sendPingToAll.  sendPing advances h.seq and
\* hands the empty payload to Conn.WriteRaw; an error is logged and the
\* loop goes on.  delivered is the set of clients whose select took the
\* send case.
SendPingToAll ==
  /\ ~panicked
  /\ hbPc = "running"
  /\ PingTargets # {}
  /\ hbSeq + Cardinality(PingTargets) <= MaxPings
  /\ hbSeq' = hbSeq + Cardinality(PingTargets)
  /\ \E delivered \in SUBSET PingTargets :
       /\ \A c \in delivered : Append(send[c], PingRaw) \in ConnWrite(c, PingRaw)
       /\ \A c \in PingTargets \ delivered : send[c] \in ConnWrite(c, PingRaw)
       /\ send' = [c \in ClientIds |->
                     IF c \in delivered THEN Append(send[c], PingRaw) ELSE send[c]]
  /\ UNCHANGED <<now, hbPc, nextCheck, hbSince, registeredAt>>
  /\ UNCHANGED <<connCtxDone, sockClosed, receive, recvClosed, readPc, writePc,
                 msgPc, framesIn, connLastSeen>>
  /\ UNCHANGED <<svcVars, busVars, published, gwVars, clientVars>>

\* Heartbeat.Stop: both loops see h.ctx.Done() and return.
HeartbeatStop ==
  /\ ~panicked
  /\ hbPc = "running"
  /\ hbPc' = "stopped"
  /\ UNCHANGED <<now, nextCheck, hbSeq, hbSince, registeredAt>>
  /\ UNCHANGED <<svcVars, busVars, published, gwVars, clientVars, connVars>>

(***************************************************************************)
(* Spec: the protocol of a connection                                      *)
(***************************************************************************)
\* The frames a peer may send as its id-th frame: connect with a device id,
\* without one and with params that are no object; ping; agent.status,
\* agent.start with a usable config and agent.stop; a
\* method nobody handles; a client event; a frame of no known type.
ProtoFrames(id) ==
  { Frame(TypeReq, id, "connect", "d1"),
    Frame(TypeReq, id, "connect", "nodevice"),
    Frame(TypeReq, id, "connect", "malformed"),
    Frame(TypeReq, id, "ping", "obj"),
    Frame(TypeReq, EmptyId, "ping", "obj"),
    Frame(TypeReq, id, "agent.status", "none"),
    Frame(TypeReq, id, "agent.start", "anthropic"),
    Frame(TypeReq, id, "agent.stop", "none"),
    Frame(TypeReq, id, "does.not.exist", "none"),
    Frame(TypeEvent, id, "", "none"),
    Frame("bogus", id, "", "none") }

\* the connections of Spec
ProtoClients == {1}

Next ==
  \/ Start
  \/ \E c \in ProtoClients : handleConnection(c)
  \/ HubRegister
  \/ \E c \in ProtoClients : \E f \in ProtoFrames(framesIn[c] + 1) : ReadFrame(c, f)
  \/ \E c \in ProtoClients : PeerClose(c)
  \/ \E c \in ProtoClients : MsgRecv(c)
  \/ \E c \in ProtoClients : MsgRecvClosed(c)
  \/ \E c \in ProtoClients : WriteDrain(c)
  \/ \E c \in ProtoClients : WriteCtxDone(c)
  \/ Tick(MaxTime)

Spec == Init /\ [][Next]_vars

(***************************************************************************)
(* SpecHub: the hub with several clients and broadcast                     *)
(***************************************************************************)
\* In SpecHub and SpecStop a peer sends the handshake and nothing else.
\* SpecHub follows a connection up to the cancellation of its context,
\* which is what Conn.Write looks at; the teardown that follows is SpecStop's.
HubFrames == { Frame(TypeReq, 1, "connect", "d1") }

NextHub ==
  \/ Start
  \/ \E c \in ClientIds : handleConnection(c)
  \/ HubRegister
  \/ HubBroadcast
  \/ Broadcast
  \/ \E c \in ClientIds : \E f \in HubFrames : ReadFrame(c, f)
  \/ \E c \in ClientIds : PeerClose(c)
  \/ \E c \in ClientIds : MsgRecv(c)
  \/ \E c \in ClientIds : WriteDrain(c)

SpecHub == Init /\ [][NextHub]_vars

(***************************************************************************)
(* SpecStop: the hub with several clients and Gateway.Stop                 *)
(***************************************************************************)
NextStop ==
  \/ Start
  \/ CallerCancel
  \/ \E c \in ClientIds : handleConnection(c)
  \/ HubRegister
  \/ HubCtxDone
  \/ \E c \in ClientIds : \E f \in HubFrames : ReadFrame(c, f)
  \/ \E c \in ClientIds : ReadFail(c)
  \/ \E c \in ClientIds : PeerClose(c)
  \/ \E c \in ClientIds : MsgRecv(c)
  \/ \E c \in ClientIds : MsgRecvClosed(c)
  \/ \E c \in ClientIds : MsgCtxDone(c)
  \/ \E c \in ClientIds : WriteDrain(c)
  \/ \E c \in ClientIds : WriteCtxDone(c)
  \/ StopShutdown
  \/ ServerExit
  \/ StopCloseClients
  \/ \E c \in ClientIds : StopCloseClient(c)
  \/ StopUnlock
  \/ StopWait

SpecStop == Init /\ [][NextStop]_vars

\* The goroutines the Go scheduler runs: a goroutine that can take a step
\* eventually takes it.  Peers, callers of the API and the clock are under
\* no such obligation.
Fairness ==
  /\ WF_vars(HubRegister)
  /\ WF_vars(HubCtxDone)
  /\ WF_vars(ServerExit)
  /\ WF_vars(StopCloseClients)
  /\ WF_vars(StopUnlock)
  /\ WF_vars(StopWait)
  /\ \A c \in ClientIds :
       /\ WF_vars(StopCloseClient(c))
       /\ WF_vars(ReadFail(c))
       /\ WF_vars(MsgRecv(c))
       /\ WF_vars(MsgRecvClosed(c))
       /\ WF_vars(MsgCtxDone(c))
       /\ WF_vars(WriteDrain(c))
       /\ WF_vars(WriteCtxDone(c))

SpecLive == Init /\ [][NextStop]_vars /\ Fairness

(***************************************************************************)
(* SpecHB: the idle check of the heartbeat manager against the clock       *)
(***************************************************************************)
\* the connections of SpecHB
HBClients == {1}

\* In SpecHB a peer sends the handshake and then pings.
HBFrames(id) ==
  IF id = 1 THEN { Frame(TypeReq, id, "connect", "d1") }
            ELSE { Frame(TypeReq, id, "ping", "obj") }

NextHB ==
  \/ Start
  \/ \E c \in HBClients : handleConnection(c)
  \/ HubRegister
  \/ \E c \in HBClients : \E f \in HBFrames(framesIn[c] + 1) :
       framesIn[c] < HBMaxFrames /\ ReadFrame(c, f)
  \/ \E c \in HBClients : MsgRecv(c)
  \/ HeartbeatStart
  \/ CheckIdle
  \/ HeartbeatStop
  \/ Tick(HBMaxTime)

SpecHB == Init /\ [][NextHB]_vars

(***************************************************************************)
(* SpecProbe: the probe loop and the idle check, with a peer that sends    *)
(* the handshake and afterwards only pongs                                 *)
(***************************************************************************)
ProbeFrames == { Frame(TypeReq, 1, "connect", "d1") }

NextProbe ==
  \/ Start
  \/ \E c \in HBClients : handleConnection(c)
  \/ HubRegister
  \/ \E c \in HBClients : \E f \in ProbeFrames : ReadFrame(c, f)
  \/ \E c \in HBClients : PongReceived(c)
  \/ \E c \in HBClients : MsgRecv(c)
  \/ HeartbeatStart
  \/ SendPingToAll
  \/ CheckIdle
  \/ HeartbeatStop
  \/ Tick(HBMaxTime)

SpecProbe == Init /\ [][NextProbe]_vars

(***************************************************************************)
(* SpecHBLive: the heartbeat manager next to Gateway.Stop, with the        *)
(* goroutines scheduled fairly                                             *)
(***************************************************************************)
NextHBLive ==
  \/ Start
  \/ CallerCancel
  \/ \E c \in HBClients : handleConnection(c)
  \/ HubRegister
  \/ HubCtxDone
  \/ \E c \in HBClients : ReadFail(c)
  \/ \E c \in HBClients : MsgRecvClosed(c)
  \/ \E c \in HBClients : MsgCtxDone(c)
  \/ \E c \in HBClients : WriteCtxDone(c)
  \/ HeartbeatStart
  \/ SendPingToAll
  \/ CheckIdle
  \/ HeartbeatStop
  \/ Tick(MaxTime)
  \/ StopShutdown
  \/ ServerExit
  \/ StopCloseClients
  \/ \E c \in ClientIds : StopCloseClient(c)
  \/ StopUnlock
  \/ StopWait

\* The loops of the heartbeat manager are goroutines too; a caller of
\* Heartbeat.Stop is under no obligation.
FairnessHB ==
  /\ Fairness
  /\ WF_vars(SendPingToAll)
  /\ WF_vars(CheckIdle)

SpecHBLive == Init /\ [][NextHBLive]_vars /\ FairnessHB

(***************************************************************************)
(* SpecOrder: one connection whose peer sends the handshake and pings,     *)
(* with the three goroutines of the connection                             *)
(***************************************************************************)
OrderFrames(id) ==
  { Frame(TypeReq, id, "connect", "d1"),
    Frame(TypeReq, id, "ping", "obj"),
    Frame(TypeReq, EmptyId, "ping", "obj") }

NextOrder ==
  \/ Start
  \/ \E c \in ProtoClients : handleConnection(c)
  \/ HubRegister
  \/ \E c \in ProtoClients : \E f \in OrderFrames(framesIn[c] + 1) : ReadFrame(c, f)
  \/ \E c \in ProtoClients : MsgRecv(c)
  \/ \E c \in ProtoClients : WriteDrain(c)

SpecOrder == Init /\ [][NextOrder]_vars

(***************************************************************************)
(* SpecWrite: one connection whose transport can fail under writePump,     *)
(* with the goroutines of the connection scheduled fairly                  *)
(***************************************************************************)
NextWrite ==
  \/ Start
  \/ \E c \in ProtoClients : handleConnection(c)
  \/ HubRegister
  \/ \E c \in ProtoClients : \E f \in OrderFrames(framesIn[c] + 1) : ReadFrame(c, f)
  \/ \E c \in ProtoClients : ReadFail(c)
  \/ \E c \in ProtoClients : MsgRecv(c)
  \/ \E c \in ProtoClients : MsgRecvClosed(c)
  \/ \E c \in ProtoClients : WriteDrain(c)
  \/ \E c \in ProtoClients : WriteFail(c)

FairnessWrite ==
  /\ WF_vars(HubRegister)
  /\ \A c \in ProtoClients :
       /\ WF_vars(ReadFail(c))
       /\ WF_vars(MsgRecv(c))
       /\ WF_vars(MsgRecvClosed(c))
       /\ WF_vars(WriteDrain(c))

SpecWrite == Init /\ [][NextWrite]_vars /\ FairnessWrite

(***************************************************************************)
(* SpecReply: one connection whose peer sends requests of every kind the   *)
(* gateway answers, with the three goroutines of the connection            *)
(***************************************************************************)
ReplyFrames(id) ==
  { Frame(TypeReq, id, "connect", "d1"),
    Frame(TypeReq, id, "connect", "nodevice"),
    Frame(TypeReq, id, "ping", "obj"),
    Frame(TypeReq, id, "ping", "none"),
    Frame(TypeReq, id, "agent.status", "none"),
    Frame(TypeReq, id, "agent.start", "anthropic"),
    Frame(TypeReq, id, "agent.stop", "none"),
    Frame(TypeReq, id, "does.not.exist", "none") }

NextReply ==
  \/ Start
  \/ \E c \in ProtoClients : handleConnection(c)
  \/ HubRegister
  \/ \E c \in ProtoClients : \E f \in ReplyFrames(framesIn[c] + 1) : ReadFrame(c, f)
  \/ \E c \in ProtoClients : PeerClose(c)
  \/ \E c \in ProtoClients : MsgRecv(c)
  \/ \E c \in ProtoClients : WriteDrain(c)

SpecReply == Init /\ [][NextReply]_vars

(***************************************************************************)
(* commands.Registry                                                       *)
(***************************************************************************)
\* the methods Registry.SetupDefaultHandlers registers
CmdHandlers == {"health", "ping", "agent", "workspace", "node"}

\* The requests handed to the registry: params "none" do not decode.
CmdFrames(id) ==
  { Frame(TypeReq, id, "ping", "obj"),
    Frame(TypeReq, id, "health", "obj"),
    Frame(TypeReq, id, "health", "none"),
    Frame(TypeReq, id, "does.not.exist", "obj") }

\* The command handler fails on params that do not decode; handlePing does
\* not look at them.
CmdHandlerFails(f) == f.method # "ping" /\ f.params = "none"

\* Registry.Handle for request f of client c, whose CommandContext carries
\* the client's session id.  Handle is given the method and the params of
\* the request only; the response it builds is identified by
\* cmdCtx.SessionID.  An unknown method and a failing handler return the
\* nil message and an error.
RegistryHandle(c, f) ==
  /\ ~panicked
  /\ accepted[c]
  /\ cmdReq' = f
  /\ cmdReply' = IF f.method \notin CmdHandlers \/ CmdHandlerFails(f)
                   THEN NoReply
                   ELSE Response(sessionID[c], TRUE, NoError, f.method, "", NoSession)
  /\ UNCHANGED <<agentCall, orphans, smVars>>
  /\ UNCHANGED <<busVars, published, gwVars, clientVars, connVars, hbVars>>

(***************************************************************************)
(* SpecCmd: handshaken clients whose requests go through the command       *)
(* registry                                                                *)
(***************************************************************************)
NextCmd ==
  \/ Start
  \/ \E c \in ClientIds : handleConnection(c)
  \/ HubRegister
  \/ \E c \in ClientIds : \E f \in HubFrames : ReadFrame(c, f)
  \/ \E c \in ClientIds : MsgRecv(c)
  \/ \E c \in ClientIds : \E id \in 1..MaxFrames : \E f \in CmdFrames(id) :
       RegistryHandle(c, f)
  \/ Tick(MaxTime)

SpecCmd == Init /\ [][NextCmd]_vars

(***************************************************************************)
(* SpecAgent: clients that ask for the agent runtime to be started and     *)
(* stopped, each served by its own handleClientMessages goroutine          *)
(***************************************************************************)
AgentFrames(id) ==
  { Frame(TypeReq, id, "agent.start", "anthropic"),
    Frame(TypeReq, id, "agent.start", "openai"),
    Frame(TypeReq, id, "agent.stop", "none") }

NextAgent ==
  \/ Start
  \/ \E c \in ClientIds : handleConnection(c)
  \/ HubRegister
  \/ \E c \in ClientIds : \E f \in AgentFrames(framesIn[c] + 1) : ReadFrame(c, f)
  \/ \E c \in ClientIds : MsgRecvOther(c)
  \/ \E c \in ClientIds : AgentStartCheck(c)
  \/ \E c \in ClientIds : AgentStartCreate(c)

SpecAgent == Init /\ [][NextAgent]_vars

(***************************************************************************)
(* session.Manager                                                         *)
(***************************************************************************)
\* Manager.GetOrCreate, first critical section: the lookup under
\* m.lock.RLock.  A hit is returned; on a miss the caller goes on to
\* create the session with no lock held.
GetOrCreateLookup(g, key) ==
  /\ smPc[g] = "idle"
  /\ smMade < MaxSessions
  /\ smKey' = [smKey EXCEPT ![g] = key]
  /\ IF smSessions[key] # NoObject
       THEN /\ smRet' = [smRet EXCEPT ![g] = smSessions[key]]
            /\ smPc' = [smPc EXCEPT ![g] = "returned"]
       ELSE /\ smRet' = [smRet EXCEPT ![g] = NoObject]
            /\ smPc' = [smPc EXCEPT ![g] = "missed"]
  /\ UNCHANGED <<smSessions, smMade>>
  /\ UNCHANGED <<cmdReq, cmdReply, agentCall, orphans>>
  /\ UNCHANGED <<busVars, published, gwVars, clientVars, connVars, hbVars>>

\* Manager.GetOrCreate after a miss: a new Session is built, stored under
\* m.lock.Lock whatever the map holds by now, and returned.
GetOrCreateStore(g) ==
  /\ smPc[g] = "missed"
  /\ smMade' = smMade + 1
  /\ smSessions' = [smSessions EXCEPT ![smKey[g]] = smMade + 1]
  /\ smRet' = [smRet EXCEPT ![g] = smMade + 1]
  /\ smPc' = [smPc EXCEPT ![g] = "returned"]
  /\ UNCHANGED smKey
  /\ UNCHANGED <<cmdReq, cmdReply, agentCall, orphans>>
  /\ UNCHANGED <<busVars, published, gwVars, clientVars, connVars, hbVars>>

\* The caller has used the Session and is ready for its next call.
GetOrCreateDone(g) ==
  /\ smPc[g] = "returned"
  /\ smPc' = [smPc EXCEPT ![g] = "idle"]
  /\ smRet' = [smRet EXCEPT ![g] = NoObject]
  /\ UNCHANGED <<smSessions, smMade, smKey>>
  /\ UNCHANGED <<cmdReq, cmdReply, agentCall, orphans>>
  /\ UNCHANGED <<busVars, published, gwVars, clientVars, connVars, hbVars>>

(***************************************************************************)
(* SpecSession: goroutines calling Manager.GetOrCreate concurrently        *)
(***************************************************************************)
NextSession ==
  \/ \E g \in Callers : \E key \in SessionKeys : GetOrCreateLookup(g, key)
  \/ \E g \in Callers : GetOrCreateStore(g)
  \/ \E g \in Callers : GetOrCreateDone(g)

SpecSession == Init /\ [][NextSession]_vars

(***************************************************************************)
(* SpecBus: the event bus with concurrent publishers                       *)
(***************************************************************************)
\* the filters and callbacks a caller of Subscribe passes
BusFilterChannels == {"", "c2"}
BusFilterTypes == {{}, {EventClientConnected}, {EventCustom}}
BusCallbacks == {"nil", "drop"}
\* the subscriptions of SpecBus: no filter at all, or one of a channel
\* filter, a type filter and a callback that returns false
BusFilters ==
  {f \in [channel : BusFilterChannels, types : BusFilterTypes,
          callback : BusCallbacks] :
     Cardinality({k \in {"channel", "types", "callback"} : f[k] # NoFilter[k]}) <= 1}
\* the events a caller of Publish passes
BusPublishTypes == {EventClientConnected}
BusPublishChannels == {"c1"}

NextBus ==
  \/ \E f \in BusFilters : Subscribe(f.channel, f.types, f.callback)
  \/ \E s \in SubIds : Unsubscribe(s)
  \/ \E p \in Publishers, t \in BusPublishTypes, ch \in BusPublishChannels :
       PublishAssign(p, t, ch)
  \/ \E p \in Publishers : PublishRLock(p)
  \/ \E p \in Publishers, s \in SubIds : PublishDeliver(p, s)
  \/ \E p \in Publishers : PublishReturn(p)
  \/ \E s \in SubIds : SubscriberReceive(s)

SpecBus == Init /\ [][NextBus]_vars

\* The sequence numbers queued for one subscriber increase strictly.
Increasing(q) == \A i \in 1..Len(q) : \A j \in 1..Len(q) : i < j => q[i].seq < q[j].seq

\* C3: for any interleaving of concurrent Publish / PublishData calls, the
\* sequence numbers a subscriber finds on its delivery queue are strictly
\* increasing in delivery order.
C3_SubscriberSeqIncreasing == \A s \in SubIds : Increasing(subSend[s])


(***************************************************************************)
(* Properties                                                              *)
(***************************************************************************)
\* The client completed a handshake: handleConnect minted its session id.
Handshaken(c) == sessionID[c] # NoSession

\* The step is handleClientMessages taking a message off c's receive channel.
MsgStep(c) == msgPc[c] = "running" /\ Len(receive'[c]) < Len(receive[c])

\* The response that rejects message f for want of a handshake.
HandshakeRequired(f) ==
  Response(f.id, FALSE, <<"HandshakeRequired">>, "", "", NoSession)

\* C1: no non-handshake message is dispatched before a successful connect:
\* when a message other than connect is taken off the receive channel of a
\* connection without a session, no handler runs for it (the only thing the
\* client may be sent is the HandshakeRequired rejection) and the
\* connection is closed.
C1_HandshakeRequired ==
  [][\A c \in ClientIds :
       (MsgStep(c) /\ ~Handshaken(c) /\ Head(receive[c]).method # "connect")
         => /\ send'[c] \in {send[c],
                              Append(send[c], HandshakeRequired(Head(receive[c])))}
            /\ (connCtxDone'[c] \/ sockClosed'[c])]_vars

\* C2: the session id of a client, once minted by a successful handshake,
\* never changes for the lifetime of the connection, further connect
\* requests included.
C2_SessionImmutable ==
  [][\A c \in ClientIds : Handshaken(c) => sessionID'[c] = sessionID[c]]_vars

\* The events of type t published for client c.
PublishedFor(t, c) ==
  {i \in 1..Len(published) : published[i].type = t /\ published[i].client = c}

\* What a successful connect leaves behind, the response aside: the device
\* id of the request, a session id minted at this instant, and one more
\* client.connected event on the bus.
ConnectEffects(c) ==
  /\ deviceID'[c] = Head(receive[c]).params
  /\ sessionID'[c] = now
  /\ Handshaken(c)'
  /\ published' = Append(published,
                         NewEvent(EventClientConnected, "", busSeq + 1, c))

\* The response of a successful connect as the claim describes it: ok, the
\* request's id, the request's device id, the new session id and the
\* snapshot that carries it.
ConnectReply(c) ==
  Response(Head(receive[c]).id, TRUE, NoError, "hello",
           Head(receive[c]).params, sessionID'[c])

\* The step handles a connect request that decodes and validates.
ConnectStep(c) ==
  /\ MsgStep(c)
  /\ HandlerOf(Head(receive[c])) = "connect"
  /\ ConnectOk(Head(receive[c]))

BroadcastStep == hubPc = "running" /\ Len(broadcast') < Len(broadcast)

\* C4: when the hub broadcasts, every registered client with room in its
\* outbound queue and an open connection gets the message, whatever the
\* state of the others; a client whose queue is full keeps its queue, stays
\* registered and its connection is not closed.
C4_BroadcastBestEffort ==
  [][BroadcastStep => \A c \in clients :
       /\ (Len(send[c]) < SendCap /\ IsAlive(c))
            => send'[c] = Append(send[c], Head(broadcast))
       /\ Len(send[c]) >= SendCap =>
            /\ send'[c] = send[c]
            /\ c \in clients'
            /\ connCtxDone'[c] = connCtxDone[c]
            /\ sockClosed'[c] = sockClosed[c]]_vars

\* the messages in a queue
Queued(q) == {q[i] : i \in 1..Len(q)}

\* C4 witness: two registered clients, one with a full queue and an open
\* connection that missed a broadcast which the other one has in its queue.
C4_Witness ==
  \E c \in clients, d \in clients, n \in 1..MaxBroadcasts :
    /\ c # d
    /\ Len(send[c]) >= SendCap
    /\ ~ConnClosed(c)
    /\ BroadcastMsg(n) \notin Queued(send[c])
    /\ BroadcastMsg(n) \in Queued(send[d])

\* C5: Gateway.Stop, once called, returns.
C5_StopReturns == (stopPc = "closing") ~> (stopPc = "done")

\* C6: after Stop has returned the client registry is empty and every
\* connection that was registered when Stop began is closed.
C6_RegistryEmptyAfterStop ==
  stopPc = "done" => (clients = {} /\ \A c \in stopClients : ConnClosed(c))

\* C7: a client whose connection is closed is not listed in the registry.
C7_ClosedNotRegistered == \A c \in clients : ~ConnClosed(c)

\* C9: for a client that completed the handshake and whose connection is
\* closed, with all three of its goroutines gone, client.disconnected has
\* been published exactly once.
C9_DisconnectedOnce ==
  \A c \in ClientIds :
    (Handshaken(c) /\ ConnClosed(c) /\ readPc[c] = "exited"
       /\ writePc[c] = "exited" /\ msgPc[c] = "exited")
      => Cardinality(PublishedFor(EventClientDisconnected, c)) = 1

\* The client completed the handshake and the hub had it in the registry
\* by the time of its last activity.
Active(c) ==
  c \in clients /\ Handshaken(c) /\ registeredAt[c] <= lastSeen[c]

\* C8: with the heartbeat manager running since the client's last
\* activity, an Active client is never found open more than
\* IdleTimeout + CheckInterval after that activity: the first idle check
\* after its inactivity exceeds IdleTimeout closes it.
C8_IdleEviction ==
  \A c \in ClientIds :
    (Active(c) /\ ~ConnClosed(c) /\ hbPc = "running" /\ hbSince <= lastSeen[c])
      => now - lastSeen[c] <= IdleTimeout + CheckInterval

\* C8 witness: a handshaken client, silent for longer than IdleTimeout,
\* closed by the idle check of a heartbeat that ran since its last activity.
C8_Witness ==
  \E c \in clients :
    /\ Active(c)
    /\ hbPc = "running"
    /\ hbSince <= lastSeen[c]
    /\ now - lastSeen[c] > IdleTimeout
    /\ status[c] = "disconnected"
    /\ ConnClosed(c)

\* The step handles a connect request that does not decode or validate.
FailedConnectStep(c) ==
  /\ MsgStep(c)
  /\ Head(receive[c]).type = TypeReq
  /\ Head(receive[c]).method = "connect"
  /\ ~ConnectOk(Head(receive[c]))

\* m is a response with ok=false and an error that answers request f.
Refuses(m, f) == m.type = TypeRes /\ m.id = f.id /\ ~m.ok /\ m.error # NoError

\* C11: a connect request that fails validation always produces a response
\* with ok=false and a specific error, enqueued for the client (its queue
\* having room) before the connection is closed; never a silent drop.
C11_FailedConnectAnswered ==
  [][\A c \in ClientIds :
       (FailedConnectStep(c) /\ Len(send[c]) < SendCap /\ IsAlive(c))
         => /\ Len(send'[c]) = Len(send[c]) + 1
            /\ Refuses(send'[c][Len(send'[c])], Head(receive[c]))]_vars

\* The methods Gateway.handleMessage serves itself.
HubMethods == {"agent.start", "agent.stop", "agent.status", "connect"}

\* The step handles a request whose method nobody registered.
UnknownStep(c) ==
  /\ MsgStep(c)
  /\ Head(receive[c]).type = TypeReq
  /\ Head(receive[c]).method \notin HubMethods \cup WsHandlers \cup {""}

\* The response the claim expects for an unknown method.
UnknownMethod(f) ==
  Response(f.id, FALSE, <<"unknown method: ", f.method>>, "", "", NoSession)

HandlerFails(f) ==
  /\ f.type = TypeReq
  /\ \/ f.method \in WsHandlers \ {"connect"} /\ f.params = "none"
     \/ f.method = "agent.start" /\ AgentStartError(f) # NoError
     \/ f.method = "agent.stop" /\ AgentStopError # NoError

\* C13: for an Active client, every request whose handler returns an error
\* (agent.start, agent.stop and agent.status included) is answered with a
\* response with ok=false carrying the error (the outbound queue having
\* room), and the connection stays open.
C13_HandlerErrorAnswered ==
  [][\A c \in ClientIds :
       (MsgStep(c) /\ Handshaken(c) /\ HandlerFails(Head(receive[c]))
          /\ Len(send[c]) < SendCap /\ IsAlive(c))
         => /\ Len(send'[c]) = Len(send[c]) + 1
            /\ Refuses(send'[c][Len(send'[c])], Head(receive[c]))
            /\ connCtxDone'[c] = connCtxDone[c]
            /\ sockClosed'[c] = sockClosed[c]]_vars

\* The filtering rule: the channel filter is empty or equals the event's
\* channel, and the type filter is empty or contains the event's type.
MatchRule(filter, eventType, channel) ==
  /\ (filter.channel = "" \/ filter.channel = channel)
  /\ (filter.types = {} \/ eventType \in filter.types)

\* C14: matchFilter accepts an event for a subscription exactly when the
\* filtering rule holds, and no subscriber's delivery queue ever holds an
\* event that its subscription does not match.
C14_FilterRule ==
  /\ \A s \in SubIds : \A t \in EventTypes : \A ch \in Channels :
       matchFilter(s, t, ch) <=> MatchRule(subFilter[s], t, ch)
  /\ \A s \in SubIds : \A i \in 1..Len(subSend[s]) :
       MatchRule(subFilter[s], subSend[s][i].type, subSend[s][i].channel)

\* C14 witness: a subscriber filtering on channel c2, subscribed before and
\* still subscribed after an event on channel c1 was delivered to another
\* subscriber, has nothing in its queue.
C14_Witness ==
  \E s \in subscribers : \E r \in subscribers :
    /\ s < r
    /\ subFilter[s].channel = "c2"
    /\ subSend[s] = <<>>
    /\ \E i \in 1..Len(subSend[r]) : subSend[r][i].channel = "c1"

\* The step is one iteration of publisher p's range loop, for subscriber s.
DeliverStep(p, s) ==
  /\ pubPc[p] = "delivering"
  /\ pubPc'[p] = "delivering"
  /\ s \in pubTodo[p]
  /\ pubTodo'[p] = pubTodo[p] \ {s}

\* C15: Publish never blocks and never stops short: in every iteration of
\* its loop a matching subscriber with free queue space receives the event,
\* a matching subscriber whose queue is full keeps its queue as it is, and
\* the publisher proceeds (no fault of the bus ends the call).
C15_PublishProceeds ==
  [][\A p \in Publishers : \A s \in SubIds :
       (DeliverStep(p, s)
          /\ MatchRule(subFilter[s], pubEvent[p].type, pubEvent[p].channel))
         => /\ busFault' = "none"
            /\ Len(subSend[s]) < SubCap
                 => subSend'[s] = Append(subSend[s], pubEvent[p])
            /\ Len(subSend[s]) >= SubCap => subSend'[s] = subSend[s]]_vars

\* Publisher p is inside a Publish call and holds its event.
Publishing(p) == pubPc[p] # "idle"

\* C16: every Publish / PublishData call takes its sequence number from the
\* one counter of the bus: the call that takes a number advances the
\* counter by one and gets the new value, no two calls in progress hold the
\* same number, and no queue holds two events with the same number.
C16_SingleCounter ==
  /\ [](/\ \A p \in Publishers : \A q \in Publishers :
            (p # q /\ Publishing(p) /\ Publishing(q))
              => pubEvent[p].seq # pubEvent[q].seq
        /\ \A p \in Publishers :
            Publishing(p) => pubEvent[p].seq \in 1..busSeq
        /\ \A s \in SubIds : \A i \in 1..Len(subSend[s]) :
            \A j \in 1..Len(subSend[s]) :
              i # j => subSend[s][i].seq # subSend[s][j].seq)
  /\ [][\A p \in Publishers :
          (~Publishing(p) /\ Publishing(p)')
            => (busSeq' = busSeq + 1 /\ pubEvent'[p].seq = busSeq')]_vars

\* C16 witness: two Publish calls in progress at once, holding consecutive
\* sequence numbers.
C16_Witness ==
  \E p \in Publishers : \E q \in Publishers :
    /\ Publishing(p) /\ Publishing(q)
    /\ pubEvent[q].seq = pubEvent[p].seq + 1

\* No send on a closed queue and no second close of a queue has happened.
NoChannelFault ==
  busFault \notin {"send on closed channel", "close of closed channel"}

\* After an Unsubscribe of s has returned nothing is put on its queue: the
\* queue only loses what its owner takes off it.
NoDeliveryAfterUnsubscribe ==
  \A s \in SubIds :
    unsubReturned[s] =>
      \/ subSend'[s] = subSend[s]
      \/ subSend[s] # <<>> /\ subSend'[s] = Tail(subSend[s])

\* C17 as stated: once Unsubscribe has returned the subscription is gone
\* and its delivery queue is closed; no send on a closed queue, no second
\* close, and no delivery after Unsubscribe returned.
C17_UnsubscribeCloses ==
  /\ [](/\ NoChannelFault
        /\ \A s \in SubIds :
             unsubReturned[s] => (s \notin subscribers /\ subClosed[s]))
  /\ [][NoDeliveryAfterUnsubscribe]_vars

\* What Unsubscribe does guarantee: once it has returned the subscription is gone;
\* the call closes the queue of a subscription it finds registered, and
\* leaves the queue of one that Publish had already removed (full queue,
\* callback returned false) as it is, open; a closed queue stays closed;
\* no send on a closed queue, no second close, and no delivery after
\* Unsubscribe returned.
C17_UnsubscribeSafe ==
  /\ [](/\ NoChannelFault
        /\ \A s \in SubIds : unsubReturned[s] => s \notin subscribers)
  /\ [][/\ NoDeliveryAfterUnsubscribe
        /\ \A s \in SubIds :
             /\ (unsubReturned'[s] /\ s \in subscribers) => subClosed'[s]
             /\ (unsubReturned'[s] /\ ~unsubReturned[s] /\ s \notin subscribers)
                  => subClosed'[s] = subClosed[s]
             /\ subClosed[s] => subClosed'[s]]_vars

\* The outcomes of a Conn.Write / Conn.WriteRaw of m on connection c are
\* never none, and agree with the queue: nil is returned exactly when the
\* message was appended, an error leaves the queue as it was, a full queue
\* gives an error, and no outcome exceeds the capacity.  With room,
\* roomOutcomes are the outcomes allowed.
WriteContract(c, m, roomOutcomes) ==
  LET outcomes == WriteOutcomes(c, m)
      appended == [queue |-> Append(send[c], m), err |-> "nil"]
  IN /\ outcomes # {}
     /\ \A o \in outcomes :
          /\ o.err = "nil" <=> o.queue = appended.queue
          /\ o.err # "nil" => o.queue = send[c]
          /\ Len(o.queue) <= SendCap
     /\ IF Len(send[c]) >= SendCap
          THEN outcomes \subseteq
                 {[queue |-> send[c], err |-> e] :
                    e \in {"send buffer full", "connection closed"}}
          ELSE outcomes \subseteq
                 {appended} \cup {[queue |-> send[c], err |-> e] : e \in roomOutcomes}

\* the writes the hub is about to make: the head of the broadcast channel,
\* on every registered client
PendingWrites(roomOutcomes) ==
  broadcast # <<>> =>
    \A c \in clients : WriteContract(c, Head(broadcast), roomOutcomes)

\* the hub's Write calls leave one of the outcomes behind
WriteStep ==
  BroadcastStep => \A c \in clients : send'[c] \in ConnWrite(c, Head(broadcast))

\* C18 as stated: Conn.Write / WriteRaw never blocks; with a full queue the
\* message is not enqueued and an error is returned; otherwise the message
\* is appended and nil is returned; the queue never exceeds its capacity.
C18_WriteNeverBlocks ==
  /\ [](/\ PendingWrites({})
        /\ \A c \in ClientIds : Len(send[c]) <= SendCap)
  /\ [][WriteStep]_vars

\* C18, amended: Conn.Write / WriteRaw never blocks; with a full queue the
\* message is not enqueued and an error is returned; with room and the
\* connection's context live the message is appended and nil is returned;
\* with room and the context cancelled the call either appends and returns
\* nil or returns "connection closed" without enqueuing; the queue never
\* exceeds its capacity.
C18_WriteContract ==
  /\ [](/\ PendingWrites({"connection closed"})
        /\ \A c \in clients :
             (broadcast # <<>> /\ Len(send[c]) < SendCap /\ IsAlive(c)) =>
               WriteContract(c, Head(broadcast), {})
        /\ \A c \in ClientIds : Len(send[c]) <= SendCap)
  /\ [][WriteStep]_vars

\* C18 witness: a registered client took one broadcast into its queue and
\* was refused a later one, which another client got.
C18_Witness ==
  \E c \in clients, d \in clients, k \in 1..MaxBroadcasts, n \in 1..MaxBroadcasts :
    /\ c # d /\ k < n
    /\ BroadcastMsg(k) \in Queued(send[c])
    /\ BroadcastMsg(n) \notin Queued(send[c])
    /\ BroadcastMsg(n) \in Queued(send[d])

\* The step is readPump taking a frame off the socket that does not decode:
\* a frame was read, the connection is live and the receive channel has
\* room, and yet nothing was put on it.
DecodeFailStep(c) ==
  /\ framesIn'[c] > framesIn[c]
  /\ ~connCtxDone[c]
  /\ Len(receive[c]) < RecvCap
  /\ receive'[c] = receive[c]

\* C19: on a decode failure of an inbound frame the read loop exits and the
\* connection is torn down (its context cancelled, its receive channel
\* closed); a framing error never leaves the connection open.
C19_DecodeFailureCloses ==
  [][\A c \in ClientIds :
       DecodeFailStep(c) =>
         /\ readPc'[c] = "exited"
         /\ recvClosed'[c]
         /\ connCtxDone'[c]]_vars

\* C20: a payload whose kind is not request, response or event, and a
\* request whose id is empty, are never returned as decoded messages: no
\* such message is on a receive channel.
C20_DecodeRejects ==
  \A c \in ClientIds : \A i \in 1..Len(receive[c]) :
    /\ receive[c][i].type \in {TypeReq, TypeRes, TypeEvent}
    /\ receive[c][i].type = TypeReq => receive[c][i].id # EmptyId

\* The step is sendPingToAll: Heartbeat.seq advances.
PingStep == hbSeq' > hbSeq

\* The step closes client c: Client.Close sets its status.
EvictStep(c) == status'[c] = "disconnected" /\ status[c] # "disconnected"

\* C21: the probe loop puts a probe only on the queue of a registered
\* client whose connection reports itself alive; a probe step, failed or
\* not, closes no connection, changes no status and removes no client;
\* a client is closed only by the idle check, on inactivity longer than
\* IdleTimeout.
C21_ProbeHarmless ==
  [][/\ PingStep =>
          /\ clients' = clients
          /\ \A c \in ClientIds :
               /\ send'[c] # send[c] =>
                    /\ c \in clients /\ IsAlive(c)
                    /\ send'[c] = Append(send[c], PingRaw)
               /\ connCtxDone'[c] = connCtxDone[c]
               /\ sockClosed'[c] = sockClosed[c]
               /\ status'[c] = status[c]
     /\ \A c \in ClientIds :
          EvictStep(c) =>
            /\ ~PingStep
            /\ nextCheck' = nextCheck + CheckInterval
            /\ now - lastSeen[c] > IdleTimeout]_vars

\* the probes in the outbound queue of c
PingsQueued(c) == Cardinality({i \in 1..Len(send[c]) : send[c][i] = PingRaw})

\* C21 witness: a probe was refused by the full queue of a registered
\* client, whose connection is open and whose status is unchanged.
C21_Witness ==
  \E c \in clients :
    /\ hbSeq > PingsQueued(c)
    /\ Len(send[c]) >= SendCap
    /\ ~ConnClosed(c)
    /\ status[c] # "disconnected"

\* C22: the idle check measures inactivity from any observed activity, an
\* inbound frame or a pong: a client is closed by it only when its
\* connection has seen neither for longer than IdleTimeout, so a client
\* that acknowledges the probes is not evicted.
C22_PongCountsAsActivity ==
  [][\A c \in ClientIds :
       EvictStep(c) =>
         /\ now - lastSeen[c] > IdleTimeout
         /\ now - connLastSeen[c] > IdleTimeout]_vars

\* C23: once Gateway.Stop has signalled shutdown, the loops of a running
\* heartbeat manager eventually terminate.
C23_HeartbeatStopsWithHub ==
  (stopPc # "idle" /\ hbPc = "running") ~> (hbPc = "stopped")

\* q2 is q1 after receives from its head, or after one send at its tail.
FifoStep(q1, q2) ==
  IF Len(q2) <= Len(q1)
    THEN q2 = SubSeq(q1, Len(q1) - Len(q2) + 1, Len(q1))
    ELSE Len(q2) = Len(q1) + 1 /\ SubSeq(q2, 1, Len(q1)) = q1

\* The ids of the requests a queue of messages stands for, in queue order.
IdsIncreasing(q) ==
  \A i \in 1..Len(q) : \A j \in 1..Len(q) :
    (i < j /\ q[i].id # EmptyId /\ q[j].id # EmptyId) => q[i].id < q[j].id

C25_BroadcastOnlyActive ==
  [][BroadcastStep =>
       \A c \in ClientIds : send'[c] # send[c] => Handshaken(c)]_vars

\* C26: an accepted connection that does not complete the connect
\* handshake is eventually closed.
C26_HandshakeTimeout ==
  \A c \in ClientIds :
    (accepted[c] /\ ~Handshaken(c)) ~> (Handshaken(c) \/ ConnClosed(c))

\* The step closes the socket of some connection: network I/O.
SocketCloseStep == \E c \in ClientIds : sockClosed'[c] /\ ~sockClosed[c]

\* C27: no socket is closed while the writer lock of the client registry
\* is held.
C27_NoIOUnderWriterLock ==
  [][SocketCloseStep => clientsLock = "free"]_vars

\* C28: every accepted connection is eventually in the registry, unless it
\* has been closed, and the accept path does not block for ever: a register
\* channel without room, on which handleConnection would block, eventually
\* has room again.
C28_AcceptedRegistered ==
  /\ \A c \in ClientIds : accepted[c] ~> (c \in clients \/ ConnClosed(c))
  /\ (Len(register) >= RegisterCap) ~> (Len(register) < RegisterCap)

\* C29: a frame that decodes, read on an open connection, is put on the
\* receive channel for the message loop.  (The peers of SpecOrder send
\* frames that decode only.)
C29_DecodedForwarded ==
  [][\A c \in ClientIds :
       (framesIn'[c] > framesIn[c] /\ ~ConnClosed(c)) =>
         Len(receive'[c]) = Len(receive[c]) + 1]_vars

\* What is irreversible about a closed connection: a cancelled context
\* stays cancelled (Conn.IsAlive stays false), a closed socket stays closed,
\* the status "disconnected" stays, and a session once given stays.
ClosedStays(c) ==
  /\ connCtxDone[c] => connCtxDone'[c]
  /\ sockClosed[c] => sockClosed'[c]
  /\ status[c] = "disconnected" => status'[c] = "disconnected"
  /\ Handshaken(c) => Handshaken(c)'

\* C30: the state of a connection only moves forward along Connecting,
\* Active, Closing, Closed, and Closed is terminal: a closed connection
\* never reports itself alive again, its client's status never leaves
\* "disconnected", and a connection closed while Connecting does not
\* become Active.
C30_ClosedTerminal ==
  [][\A c \in ClientIds :
       /\ ClosedStays(c)
       /\ (ConnClosed(c) /\ ~Handshaken(c)) => ~Handshaken(c)']_vars

\* The part of C30 that holds.
ClosedStaysAlways == [][\A c \in ClientIds : ClosedStays(c)]_vars


(***************************************************************************)
(* C31: a failed write in writePump tears the connection down              *)
(***************************************************************************)
\* writePump of connection c returns although neither the socket was
\* closed nor the context cancelled: a write on the transport failed.
WriteFailStep(c) ==
  /\ writePc[c] = "running"
  /\ writePc'[c] = "exited"
  /\ ~sockClosed[c]
  /\ ~connCtxDone[c]

\* C31: when a write of writePump fails on the transport (the write
\* deadline included), the write loop exits, the socket is closed and the
\* connection reports not alive in the same step, no other connection is
\* touched, and the read loop of the connection exits afterwards.
C31_WriteFailureTearsDown ==
  /\ [][\A c \in ClientIds :
          WriteFailStep(c) =>
            /\ sockClosed'[c]
            /\ ~IsAlive(c)'
            /\ \A d \in ClientIds \ {c} :
                 /\ sockClosed'[d] = sockClosed[d]
                 /\ connCtxDone'[d] = connCtxDone[d]]_vars
  /\ \A c \in ClientIds :
       (writePc[c] = "exited") ~> (readPc[c] = "exited")

\* A connection that had read frames of its peer and was torn down by a
\* failed write: both pumps have exited and the socket is closed.
C31_Witness ==
  \E c \in ClientIds :
    /\ accepted[c]
    /\ writePc[c] = "exited"
    /\ readPc[c] = "exited"
    /\ sockClosed[c]
    /\ ~IsAlive(c)
    /\ framesIn[c] > 0

(***************************************************************************)
(* C32: event messages of a client are republished on the bus              *)
(***************************************************************************)
\* C32: when an event message is taken off the receive channel of a client
\* that has completed the handshake, an Event carrying that client's
\* identity is published on the EventBus in the same step.
C32_EventRepublished ==
  [][\A c \in ClientIds :
       (MsgStep(c) /\ Handshaken(c) /\ Head(receive[c]).type = TypeEvent)
         => /\ Len(published') = Len(published) + 1
            /\ published'[Len(published')].client = c]_vars

(***************************************************************************)
(* C33: ok and error of a response exclude each other                      *)
(***************************************************************************)
\* A response is a success without an error, or a failure with an error
\* and without a payload.
ResponseShape(m) ==
  \/ m.ok /\ m.error = NoError
  \/ ~m.ok /\ m.error # NoError /\ m.kind = ""

\* C33: every response on the outbound queue of a connection has ok=true
\* with an empty error, or ok=false with a non-empty error and no success
\* payload.
C33_OkXorError ==
  \A c \in ClientIds :
    \A i \in 1..Len(send[c]) :
      send[c][i].type = TypeRes => ResponseShape(send[c][i])

\* Both kinds of response are queued on one connection: a success and a
\* failure.
C33_Witness ==
  \E c \in ClientIds :
    \E i, j \in 1..Len(send[c]) :
      /\ send[c][i].type = TypeRes /\ send[c][i].ok
      /\ send[c][j].type = TypeRes /\ ~send[c][j].ok

(***************************************************************************)
(* C34: a response carries the id of the request it answers                *)
(***************************************************************************)
\* C34: every response produced for a request carries the id of that
\* request: a response put on the outbound queue while a request is
\* dispatched has the id of the request taken off the receive channel, and
\* a response returned by the command registry's Handle has the id of the
\* request Handle was called for.
C34_ResponseCarriesRequestId ==
  /\ [][\A c \in ClientIds :
          (MsgStep(c) /\ Len(send'[c]) > Len(send[c]))
            => send'[c][Len(send'[c])].id = Head(receive[c]).id]_vars
  /\ [](cmdReply # NoReply => cmdReply.id = cmdReq.id)

(***************************************************************************)
(* C35: the subscriber set changes under the exclusive lock only           *)
(***************************************************************************)
\* C35: the subscriber set of the EventBus is modified only while the
\* exclusive lock of the bus is held, that is, in no step in which a
\* publisher holds the lock for reading.
C35_SubscribersUnderExclusiveLock ==
  [][subscribers' # subscribers => BusUnlocked]_vars

(***************************************************************************)
(* C36: no write succeeds on a closed connection                           *)
(***************************************************************************)
\* C36: once Conn.Close has returned for a connection (Client.Close has
\* marked the client disconnected, the context is cancelled and the socket
\* closed), no Conn.Write or Conn.WriteRaw puts a message on its outbound
\* queue, whatever room the queue has.
C36_NoWriteAfterClose ==
  [][\A c \in ClientIds :
       (status[c] = "disconnected" /\ connCtxDone[c] /\ sockClosed[c])
         => Len(send'[c]) <= Len(send[c])]_vars

(***************************************************************************)
(* C37: one agent runtime at most                                          *)
(***************************************************************************)
\* the runtimes that were created and started and are not stopped
RunningRuntimes == orphans + (IF agentRuntime = "running" THEN 1 ELSE 0)

\* C37: whatever the interleaving of agent.start requests of different
\* clients, at most one agent runtime is created and running, and a
\* StartAgent call made while a runtime is running leaves the gateway's
\* runtime as it is.
C37_SingleRuntime ==
  /\ [](RunningRuntimes <= 1)
  /\ [][agentRuntime = "running" => agentRuntime' # "running" \/ orphans' = orphans]_vars

(***************************************************************************)
(* C38: Broadcast does not block and keeps the order of its calls          *)
(***************************************************************************)
\* The step is a call of Gateway.Broadcast.
BroadcastCall == nBroadcasts' = nBroadcasts + 1

\* The broadcast messages of queue q are in the order of their calls.
CastOrdered(q) ==
  \A i \in 1..Len(q) : \A j \in 1..Len(q) :
    (i < j /\ q[i].kind = "broadcast" /\ q[j].kind = "broadcast")
      => q[i].id < q[j].id

C39_OneSessionPerId ==
  /\ [](\A g, h \in Callers :
          (smPc[g] = "returned" /\ smPc[h] = "returned" /\ smKey[g] = smKey[h])
            => (smRet[g] = smRet[h] /\ smRet[g] = smSessions[smKey[g]]))
  /\ [][\A key \in SessionKeys :
          smSessions[key] # NoObject => smSessions'[key] = smSessions[key]]_vars

(***************************************************************************)
(* C40: the gateway's WaitGroup is balanced                                *)
(***************************************************************************)
\* C40: every goroutine that signals completion on the gateway's WaitGroup
\* was counted by an Add before, so that in a run of Start followed by
\* Stop the counter never goes negative (a negative counter is a panic of
\* the Done that caused it).
C40_WaitCounterBalanced == wg >= 0 /\ ~panicked

=============================================================================
